---- MODULE Spec2Model ----
(***************************************************************************)
(* The wiki/CMS workers of cf-worker-js (src/n1-page-manager.js and its    *)
(* English twin src/unnamed/part_001) as a state machine over a key-value  *)
(* namespace.  JavaScript strings are TLA+ strings; the string built-ins   *)
(* the handlers call (replace, test, includes, split, btoa, atob,          *)
(* JSON.stringify, JSON.parse, decodeURIComponent, encodeURIComponent) are *)
(* operators that compute what the built-in computes.  The file API and    *)
(* the sync script of src/unnamed/part_000 and the droplet proxy of        *)
(* src/do-api.js follow, each with its own specification.                  *)
(***************************************************************************)
EXTENDS Integers, Sequences, FiniteSets, TLC

VARIABLES
    variant,    \* which of the two workers is deployed: "n1" or "wiki"
    KV,         \* the KV namespace: a function from the stored keys to strings
    request,    \* the request handled last
    response,   \* the response handleRequest returned for it
    tasks,      \* the requests in flight between two awaits, each with its locals
    poller      \* the PID file and the processes of the sync script (src/unnamed/part_000)

vars == <<variant, KV, request, response, tasks, poller>>

----------------------------------------------------------------------------
(* Strings *)

\* the characters i..j of s that exist (s.substring(i - 1, j))
Substring(s, i, j) ==
    LET a == IF i < 1 THEN 1 ELSE i
        b == IF j > Len(s) THEN Len(s) ELSE j
    IN  IF a > b THEN "" ELSE SubSeq(s, a, b)

\* s.charAt(i - 1): the empty string outside the string
CharAt(s, i) == Substring(s, i, i)

\* s.startsWith(p)
StartsWith(s, p) == Len(s) >= Len(p) /\ Substring(s, 1, Len(p)) = p

\* the set of positions at which sub occurs in s
Occurrences(s, sub) ==
    {i \in 1..(Len(s) - Len(sub) + 1) : Substring(s, i, i + Len(sub) - 1) = sub}

\* s.indexOf(sub), 1-based, 0 when sub does not occur
IndexOf(s, sub) ==
    LET occ == Occurrences(s, sub)
    IN  IF occ = {} THEN 0 ELSE CHOOSE i \in occ : \A j \in occ : i <= j

\* s.includes(sub)
Includes(s, sub) == Occurrences(s, sub) # {}

\* a table of characters as the function from each character to its position
TableIndex(tbl) ==
    [c \in {CharAt(tbl, i) : i \in 1..Len(tbl)} |->
        CHOOSE i \in 1..Len(tbl) : CharAt(tbl, i) = c]

\* position of the one-character string c in the table with index idx, 0 when absent
Pos(idx, c) == IF c \in DOMAIN idx THEN idx[c] ELSE 0

UpperIndex == TableIndex("ABCDEFGHIJKLMNOPQRSTUVWXYZ")
DigitIndex == TableIndex("0123456789")
HexIndex == TableIndex("0123456789ABCDEF")
LowerHexIndex == TableIndex("abcdef")

IsDigit(c) == Pos(DigitIndex, c) > 0

\* the lower-case letter of an upper-case letter, every other character itself
LowerChar(c) ==
    IF Pos(UpperIndex, c) > 0 THEN CharAt("abcdefghijklmnopqrstuvwxyz", Pos(UpperIndex, c))
    ELSE c

\* the characters i..j of s in lower case (the halves are taken apart so that
\* the evaluation nests no deeper than the logarithm of the length)
RECURSIVE LowerRange(_, _, _)
LowerRange(s, i, j) ==
    IF i > j THEN ""
    ELSE IF i = j THEN LowerChar(CharAt(s, i))
    ELSE LowerRange(s, i, (i + j) \div 2) \o LowerRange(s, (i + j) \div 2 + 1, j)

\* s.toLowerCase(), as the flag i of a regular expression compares
ToLowerCase(s) == LowerRange(s, 1, Len(s))

RECURSIVE ReplaceRange(_, _, _, _, _)
ReplaceRange(s, c, r, i, j) ==
    IF i > j THEN ""
    ELSE IF i = j THEN (IF CharAt(s, i) = c THEN r ELSE CharAt(s, i))
    ELSE ReplaceRange(s, c, r, i, (i + j) \div 2) \o ReplaceRange(s, c, r, (i + j) \div 2 + 1, j)

\* s.replace(/c/g, r) for a one-character pattern c
ReplaceAll(s, c, r) == ReplaceRange(s, c, r, 1, Len(s))

\* s.split(sep): the pieces between the occurrences of sep, left to right
RECURSIVE Split(_, _)
Split(s, sep) ==
    LET i == IndexOf(s, sep)
    IN  IF i = 0 THEN <<s>>
        ELSE <<Substring(s, 1, i - 1)>> \o Split(Substring(s, i + Len(sep), Len(s)), sep)

----------------------------------------------------------------------------
(* Base64: btoa and atob over byte sequences (the "binary strings" of      *)
(* arrayBufferToBase64 and serveFileDownload, one char code 0..255 each).  *)

Base64Alphabet == "ABCDEFGHIJKLMNOPQRSTUVWXYZabcdefghijklmnopqrstuvwxyz0123456789+/"

B64Char(n) == CharAt(Base64Alphabet, n + 1)

\* btoa(binary): three bytes to four characters, the tail padded with '='
RECURSIVE btoa(_)
btoa(bytes) ==
    IF Len(bytes) = 0 THEN ""
    ELSE IF Len(bytes) = 1 THEN
        B64Char(bytes[1] \div 4) \o B64Char((bytes[1] % 4) * 16) \o "=="
    ELSE IF Len(bytes) = 2 THEN
        B64Char(bytes[1] \div 4)
            \o B64Char((bytes[1] % 4) * 16 + bytes[2] \div 16)
            \o B64Char((bytes[2] % 16) * 4) \o "="
    ELSE
        B64Char(bytes[1] \div 4)
            \o B64Char((bytes[1] % 4) * 16 + bytes[2] \div 16)
            \o B64Char((bytes[2] % 16) * 4 + bytes[3] \div 64)
            \o B64Char(bytes[3] % 64)
            \o btoa(SubSeq(bytes, 4, Len(bytes)))

Base64Index == TableIndex(Base64Alphabet)

B64Val(c) == Pos(Base64Index, c) - 1

\* the data characters of a base64 text, with the one or two '=' of a text
\* whose length is a multiple of four removed (forgiving-base64 decode)
StripPadding(s) ==
    IF Len(s) % 4 = 0 /\ Len(s) >= 2 /\ Substring(s, Len(s) - 1, Len(s)) = "=="
        THEN Substring(s, 1, Len(s) - 2)
    ELSE IF Len(s) % 4 = 0 /\ Len(s) >= 1 /\ CharAt(s, Len(s)) = "="
        THEN Substring(s, 1, Len(s) - 1)
    ELSE s

RECURSIVE DecodeGroups(_)
DecodeGroups(s) ==
    IF Len(s) = 0 THEN <<>>
    ELSE IF Len(s) = 2 THEN
        <<B64Val(CharAt(s, 1)) * 4 + B64Val(CharAt(s, 2)) \div 16>>
    ELSE IF Len(s) = 3 THEN
        <<B64Val(CharAt(s, 1)) * 4 + B64Val(CharAt(s, 2)) \div 16,
          (B64Val(CharAt(s, 2)) % 16) * 16 + B64Val(CharAt(s, 3)) \div 4>>
    ELSE
        <<B64Val(CharAt(s, 1)) * 4 + B64Val(CharAt(s, 2)) \div 16,
          (B64Val(CharAt(s, 2)) % 16) * 16 + B64Val(CharAt(s, 3)) \div 4,
          (B64Val(CharAt(s, 3)) % 4) * 64 + B64Val(CharAt(s, 4))>>
            \o DecodeGroups(Substring(s, 5, Len(s)))

\* atob(text): [threw, bytes]; throws InvalidCharacterError on a character
\* outside the alphabet or on a length that is 1 modulo 4.  The texts of the
\* model hold no ASCII whitespace, which atob would drop first.
atob(text) ==
    LET data == StripPadding(text)
    IN  IF Len(data) % 4 = 1 \/ \E i \in 1..Len(data) : Pos(Base64Index, CharAt(data, i)) = 0
        THEN [threw |-> TRUE, bytes |-> <<>>]
        ELSE [threw |-> FALSE, bytes |-> DecodeGroups(data)]

\* the loop stopping one byte short of the buffer
arrayBufferToBase64Short(buffer) == btoa(SubSeq(buffer, 1, Len(buffer) - 1))

\* arrayBufferToBase64(buffer): String.fromCharCode of each byte, then btoa
arrayBufferToBase64(buffer) == btoa(buffer)

----------------------------------------------------------------------------
(* Percent-encoding.  Keys and file names of the model are printable ASCII, *)
(* so every escape is a single %XX of a code 0x20..0x7E.                    *)

\* the printable ASCII characters by code: 0x20..0x5F and 0x61..0x7E (0x60,
\* the backquote, cannot be written in a TLA+ string and is in no modelled text)
AsciiLow == " !\"#$%&'()*+,-./0123456789:;<=>?@ABCDEFGHIJKLMNOPQRSTUVWXYZ[\\]^_"
AsciiHigh == "abcdefghijklmnopqrstuvwxyz{|}~"

AsciiLowIndex == TableIndex(AsciiLow)
AsciiHighIndex == TableIndex(AsciiHigh)

\* c.charCodeAt(0)
CharCode(c) ==
    IF Pos(AsciiLowIndex, c) > 0 THEN Pos(AsciiLowIndex, c) + 31
    ELSE Pos(AsciiHighIndex, c) + 96

\* String.fromCharCode(n)
FromCharCode(n) ==
    IF n <= 95 THEN CharAt(AsciiLow, n - 31) ELSE CharAt(AsciiHigh, n - 96)

\* the value of a hex digit of either case, -1 for any other character
HexVal(c) ==
    IF Pos(HexIndex, c) > 0 THEN Pos(HexIndex, c) - 1
    ELSE IF Pos(LowerHexIndex, c) > 0 THEN Pos(LowerHexIndex, c) + 9
    ELSE -1

\* decodeURIComponent(s): [threw, v]; throws URIError on a '%' that is not
\* followed by two hex digits (and on an escape outside 0x20..0x7E, which would
\* need the continuation bytes of a UTF-8 sequence that no modelled string has)
RECURSIVE decodeURIComponent(_)
decodeURIComponent(s) ==
    IF s = "" THEN [threw |-> FALSE, v |-> ""]
    ELSE IF CharAt(s, 1) # "%" THEN
        LET rest == decodeURIComponent(Tail(s))
        IN  [threw |-> rest.threw, v |-> CharAt(s, 1) \o rest.v]
    ELSE IF Len(s) < 3 \/ HexVal(CharAt(s, 2)) < 0 \/ HexVal(CharAt(s, 3)) < 0
        THEN [threw |-> TRUE, v |-> ""]
    ELSE
        LET code == HexVal(CharAt(s, 2)) * 16 + HexVal(CharAt(s, 3))
            rest == decodeURIComponent(Substring(s, 4, Len(s)))
        IN  IF code < 32 \/ code > 126 \/ code = 96 THEN [threw |-> TRUE, v |-> ""]
            ELSE [threw |-> rest.threw, v |-> FromCharCode(code) \o rest.v]

\* the characters encodeURIComponent leaves alone
UriUnreservedIndex ==
    TableIndex("ABCDEFGHIJKLMNOPQRSTUVWXYZabcdefghijklmnopqrstuvwxyz0123456789-_.!~*'()")

EncodeChar(c) ==
    IF Pos(UriUnreservedIndex, c) > 0 THEN c
    ELSE "%" \o CharAt("0123456789ABCDEF", (CharCode(c) \div 16) + 1)
             \o CharAt("0123456789ABCDEF", (CharCode(c) % 16) + 1)

RECURSIVE encodeURIComponent(_)
encodeURIComponent(s) ==
    IF s = "" THEN "" ELSE EncodeChar(CharAt(s, 1)) \o encodeURIComponent(Tail(s))

----------------------------------------------------------------------------
(* JavaScript values as JSON.parse builds them, tagged by typeof.  A number *)
(* keeps its source text; an object is the sequence of its members.         *)

JSUndefined == [t |-> "undefined"]
JSNull == [t |-> "null"]
JSString(s) == [t |-> "string", v |-> s]
JSNumber(txt) == [t |-> "number", v |-> txt]
JSBoolean(b) == [t |-> "boolean", v |-> b]
JSObject(members) == [t |-> "object", v |-> members]
JSArray(items) == [t |-> "array", v |-> items]

\* a number is zero when no digit of its mantissa is other than 0
NumberIsZero(txt) ==
    LET e == IF IndexOf(ToLowerCase(txt), "e") = 0 THEN Len(txt) + 1
             ELSE IndexOf(ToLowerCase(txt), "e")
    IN  \A i \in 1..(e - 1) : Pos(DigitIndex, CharAt(txt, i)) <= 1

\* ToBoolean(v)
Truthy(v) ==
    CASE v.t = "undefined" -> FALSE
      [] v.t = "null" -> FALSE
      [] v.t = "string" -> v.v # ""
      [] v.t = "number" -> ~NumberIsZero(v.v)
      [] v.t = "boolean" -> v.v
      [] OTHER -> TRUE

\* v.name for a value that is neither null nor undefined: the last member of
\* that name of an object, undefined on everything else
GetProp(v, name) ==
    IF v.t # "object" THEN JSUndefined
    ELSE LET hits == {i \in 1..Len(v.v) : v.v[i].k = name}
         IN  IF hits = {} THEN JSUndefined
             ELSE v.v[CHOOSE i \in hits : \A j \in hits : j <= i].v

\* String(v), as a template literal interpolates it
RECURSIVE JSToString(_)
RECURSIVE JoinItems(_)
JSToString(v) ==
    CASE v.t = "undefined" -> "undefined"
      [] v.t = "null" -> "null"
      [] v.t = "string" -> v.v
      [] v.t = "number" -> v.v
      [] v.t = "boolean" -> IF v.v THEN "true" ELSE "false"
      [] v.t = "array" -> JoinItems(v.v)
      [] OTHER -> "[object Object]"
JoinItems(items) ==
    IF Len(items) = 0 THEN ""
    ELSE (IF Head(items).t \in {"undefined", "null"} THEN "" ELSE JSToString(Head(items)))
         \o (IF Len(items) = 1 THEN "" ELSE "," \o JoinItems(Tail(items)))

----------------------------------------------------------------------------
(* JSON.stringify and JSON.parse *)

\* the quoted form of a string: '"' and '\' escaped, the control characters
\* newline, carriage return and tab written as \n, \r, \t
QuoteChar(c) ==
    CASE c = "\"" -> "\\\""
      [] c = "\\" -> "\\\\"
      [] c = "\n" -> "\\n"
      [] c = "\r" -> "\\r"
      [] c = "\t" -> "\\t"
      [] OTHER -> c

RECURSIVE QuoteRange(_, _, _)
QuoteRange(s, i, j) ==
    IF i > j THEN ""
    ELSE IF i = j THEN QuoteChar(CharAt(s, i))
    ELSE QuoteRange(s, i, (i + j) \div 2) \o QuoteRange(s, (i + j) \div 2 + 1, j)

Quote(s) == "\"" \o QuoteRange(s, 1, Len(s)) \o "\""

\* JSON.stringify({fileName, mimeType, content}) of three strings
JSONStringifyFileRecord(fileName, mimeType, content) ==
    "{\"fileName\":" \o Quote(fileName) \o ",\"mimeType\":" \o Quote(mimeType)
        \o ",\"content\":" \o Quote(content) \o "}"

ParseFail == [ok |-> FALSE, v |-> JSUndefined, pos |-> 0]
ParseOk(v, pos) == [ok |-> TRUE, v |-> v, pos |-> pos]

RECURSIVE SkipWS(_, _)
SkipWS(s, i) ==
    IF i <= Len(s) /\ CharAt(s, i) \in {" ", "\n", "\r", "\t"} THEN SkipWS(s, i + 1) ELSE i

RECURSIVE DigitsEnd(_, _)
DigitsEnd(s, i) == IF i <= Len(s) /\ IsDigit(CharAt(s, i)) THEN DigitsEnd(s, i + 1) ELSE i

\* the number of backslashes that stand in a row right before position p,
\* counted back to position i
RECURSIVE BackslashRun(_, _, _)
BackslashRun(s, i, p) ==
    IF p > i /\ CharAt(s, p - 1) = "\\" THEN 1 + BackslashRun(s, i, p - 1) ELSE 0

\* what the character at p of a string body that starts at i stands for: the
\* character after an escaping backslash, that backslash, or itself
Unescaped(s, i, p) ==
    LET c == CharAt(s, p)
    IN  IF BackslashRun(s, i, p) % 2 = 1 THEN
            CASE c = "n" -> "\n" [] c = "r" -> "\r" [] c = "t" -> "\t" [] OTHER -> c
        ELSE IF c = "\\" THEN ""
        ELSE c

RECURSIVE UnescapeRange(_, _, _, _)
UnescapeRange(s, i, a, b) ==
    IF a > b THEN ""
    ELSE IF a = b THEN Unescaped(s, i, a)
    ELSE UnescapeRange(s, i, a, (a + b) \div 2) \o UnescapeRange(s, i, (a + b) \div 2 + 1, b)

\* the body of a string literal from position i (after the opening quote) to
\* its closing quote, the first quote that no backslash escapes.  The escapes
\* \b, \f and \uXXXX name characters that no modelled text holds and are not
\* decoded.
StringBody(s, i) ==
    LET BodyUpTo(close) ==
            IF \E p \in i..(close - 1) :
                    IF BackslashRun(s, i, p) % 2 = 1
                    THEN CharAt(s, p) \notin {"\"", "\\", "/", "n", "r", "t"}
                    ELSE CharAt(s, p) \in {"\n", "\r", "\t"}
            THEN ParseFail
            ELSE ParseOk(UnescapeRange(s, i, i, close - 1), close + 1)
        BodyEnds(ends) ==
            IF ends = {} THEN ParseFail
            ELSE BodyUpTo(CHOOSE p \in ends : \A q \in ends : p <= q)
    IN  BodyEnds({p \in i..Len(s) : CharAt(s, p) = "\"" /\ BackslashRun(s, i, p) % 2 = 0})

\* number: -? (0 | [1-9][0-9]*) (. [0-9]+)? ([eE] [+-]? [0-9]+)?
\* An end is the position after a part; 0 says the digits of the part are
\* missing.
NumberLiteral(s, i) ==
    LET IntegerEnd(a) == IF CharAt(s, a) = "0" THEN a + 1 ELSE DigitsEnd(s, a)
        FractionEnd(b) ==
            IF CharAt(s, b) # "." THEN b
            ELSE IF IsDigit(CharAt(s, b + 1)) THEN DigitsEnd(s, b + 1)
            ELSE 0
        ExponentEnd(c) ==
            IF CharAt(s, c) \notin {"e", "E"} THEN c
            ELSE IF IsDigit(CharAt(s, c + 1)) THEN DigitsEnd(s, c + 1)
            ELSE IF CharAt(s, c + 1) \in {"+", "-"} /\ IsDigit(CharAt(s, c + 2))
                THEN DigitsEnd(s, c + 2)
            ELSE 0
        UpTo(f) ==
            IF f = 0 THEN ParseFail ELSE ParseOk(JSNumber(Substring(s, i, f - 1)), f)
        Fraction(c) == IF c = 0 THEN ParseFail ELSE UpTo(ExponentEnd(c))
        Integer(a, b) == IF b = a THEN ParseFail ELSE Fraction(FractionEnd(b))
        Signed(a) == Integer(a, IntegerEnd(a))
    IN  Signed(IF CharAt(s, i) = "-" THEN i + 1 ELSE i)

RECURSIVE ParseValue(_, _)
RECURSIVE ParseMembers(_, _, _, _)
RECURSIVE ParseElements(_, _, _, _)

\* the value that starts at j with the character c, after the whitespace
ValueAt(s, j, c, body) ==
    IF j > Len(s) THEN ParseFail
    ELSE IF c = "{" THEN ParseMembers(s, j + 1, <<>>, TRUE)
    ELSE IF c = "[" THEN ParseElements(s, j + 1, <<>>, TRUE)
    ELSE IF c = "\"" THEN (IF body.ok THEN ParseOk(JSString(body.v), body.pos) ELSE ParseFail)
    ELSE IF Substring(s, j, j + 3) = "true" THEN ParseOk(JSBoolean(TRUE), j + 4)
    ELSE IF Substring(s, j, j + 4) = "false" THEN ParseOk(JSBoolean(FALSE), j + 5)
    ELSE IF Substring(s, j, j + 3) = "null" THEN ParseOk(JSNull, j + 4)
    ELSE IF c = "-" \/ IsDigit(c) THEN NumberLiteral(s, j)
    ELSE ParseFail

\* the JSON value that starts at or after position i (whitespace skipped)
ParseValue(s, i) ==
    ValueAt(s, SkipWS(s, i), CharAt(s, SkipWS(s, i)), StringBody(s, SkipWS(s, i) + 1))

\* after a member, at m: a comma and more members, or the closing brace
MembersNext(s, m, members) ==
    IF CharAt(s, m) = "," THEN ParseMembers(s, m + 1, members, FALSE)
    ELSE IF CharAt(s, m) = "}" THEN ParseOk(JSObject(members), m + 1)
    ELSE ParseFail

\* the member whose name has been read, from the colon on
MemberValue(s, acc, name, val) ==
    IF ~name.ok \/ CharAt(s, SkipWS(s, name.pos)) # ":" \/ ~val.ok THEN ParseFail
    ELSE MembersNext(s, SkipWS(s, val.pos), Append(acc, [k |-> name.v, v |-> val.v]))

MemberNamed(s, acc, name) ==
    MemberValue(s, acc, name,
        IF name.ok /\ CharAt(s, SkipWS(s, name.pos)) = ":"
        THEN ParseValue(s, SkipWS(s, name.pos) + 1)
        ELSE ParseFail)

MembersAt(s, j, acc, first) ==
    IF first /\ CharAt(s, j) = "}" THEN ParseOk(JSObject(acc), j + 1)
    ELSE IF CharAt(s, j) # "\"" THEN ParseFail
    ELSE MemberNamed(s, acc, StringBody(s, j + 1))

\* the members of an object from position i, after those in acc
ParseMembers(s, i, acc, first) == MembersAt(s, SkipWS(s, i), acc, first)

\* after an element, at m: a comma and more elements, or the closing bracket
ElementsNext(s, m, elements) ==
    IF CharAt(s, m) = "," THEN ParseElements(s, m + 1, elements, FALSE)
    ELSE IF CharAt(s, m) = "]" THEN ParseOk(JSArray(elements), m + 1)
    ELSE ParseFail

ElementValue(s, acc, val) ==
    IF ~val.ok THEN ParseFail
    ELSE ElementsNext(s, SkipWS(s, val.pos), Append(acc, val.v))

\* the elements of an array from position i, after those in acc
ParseElements(s, i, acc, first) ==
    IF first /\ CharAt(s, SkipWS(s, i)) = "]" THEN ParseOk(JSArray(acc), SkipWS(s, i) + 1)
    ELSE ElementValue(s, acc, ParseValue(s, SkipWS(s, i)))

\* JSON.parse(text): [threw, v]; throws SyntaxError unless the whole text is
\* one JSON value, whitespace around it allowed
JSONParse(text) ==
    LET WholeText(r) ==
            IF r.ok /\ SkipWS(text, r.pos) = Len(text) + 1
            THEN [threw |-> FALSE, v |-> r.v]
            ELSE [threw |-> TRUE, v |-> JSUndefined]
    IN  WholeText(ParseValue(text, 1))

----------------------------------------------------------------------------
(* Responses.  A body is the handler's template with its holes, or the raw  *)
(* string or bytes handed to new Response.  The fixed texts are those of    *)
(* part_001; n1-page-manager.js has the same texts in Chinese.              *)

HtmlType == "text/html; charset=utf-8"
PlainType == "text/plain; charset=utf-8"
\* what new Response(string) sets when the handler names no Content-Type
DefaultType == "text/plain;charset=UTF-8"

Response(status, contentType, body) ==
    [status |-> status, contentType |-> contentType, location |-> "",
     setCookie |-> "", contentDisposition |-> "", body |-> body]

TextBody(text) == [kind |-> "text", text |-> text]
\* a stored value handed to the browser as the HTML document
RawBody(data) == [kind |-> "raw", html |-> data]

Redirect(location) ==
    [Response(302, DefaultType, TextBody("")) EXCEPT !.location = location]

InternalServerError == Response(500, DefaultType, TextBody("Internal Server Error"))

\* the outcome of a handler: the response and the namespace it leaves
Outcome(resp, kv) == [threw |-> FALSE, response |-> resp, kv |-> kv]
\* the handler let an exception escape, after leaving the namespace as kv
Thrown(kv) == [threw |-> TRUE, response |-> InternalServerError, kv |-> kv]

----------------------------------------------------------------------------
(* The KV namespace *)

\* KV.get(key): the stored string, null when the key is not stored
KVGet(kv, key) == IF key \in DOMAIN kv THEN JSString(kv[key]) ELSE JSNull

\* KV.put(key, value)
KVPut(kv, key, value) ==
    [k \in DOMAIN kv \cup {key} |-> IF k = key THEN value ELSE kv[k]]

\* KV.delete(key)
KVDelete(kv, key) == [k \in DOMAIN kv \ {key} |-> kv[k]]

----------------------------------------------------------------------------
(* Reading a page *)

\* /<html|<!DOCTYPE|<body|<div|<script|<style/i.test(data)
MarkupTriggers == {"<html", "<!DOCTYPE", "<body", "<div", "<script", "<style"}

\* the triggers as the flag i compares them
LowerTriggers == {ToLowerCase(trig) : trig \in MarkupTriggers}

\* the test without the flag i: the triggers only as they are written
LooksLikeMarkupExact(data) == \E trig \in MarkupTriggers : Includes(data, trig)

LooksLikeMarkup(data) ==
    LET lower == ToLowerCase(data)
    IN  \E trig \in LowerTriggers : Includes(lower, trig)

\* the escape that also turns the newline into the entity &#10;
EscapeHtmlNewlineEntity(data) ==
    ReplaceAll(ReplaceAll(ReplaceAll(ReplaceAll(data,
        "&", "&amp;"), "<", "&lt;"), ">", "&gt;"), "\n", "&#10;")

\* data.replace(/&/g, '&amp;').replace(/</g, '&lt;').replace(/>/g, '&gt;')
EscapeHtml(data) ==
    ReplaceAll(ReplaceAll(ReplaceAll(data, "&", "&amp;"), "<", "&lt;"), ">", "&gt;")

serveImagePreview(imageContent) ==
    Response(200, HtmlType, [kind |-> "imagePreview", src |-> JSToString(imageContent)])

\* the download decoding the part before 'base64,' instead of the one after it
serveFileDownloadFirstPart(fileName, mimeType, content) ==
    LET binaryData == atob(Split(content.v, "base64,")[1])
    IN  IF content.t # "string" \/ binaryData.threw
        THEN [threw |-> TRUE, response |-> InternalServerError]
        ELSE [threw |-> FALSE,
              response |-> Response(200, mimeType.v, [kind |-> "bytes", bytes |-> binaryData.bytes])]

\* [threw, response]: content.split and atob throw on what is not a data URI
serveFileDownload(fileName, mimeType, content) ==
    LET parts == Split(content.v, "base64,")
        base64Content == IF Len(parts) >= 2 THEN parts[2] ELSE "undefined"
        binaryData == atob(base64Content)
    IN  IF content.t # "string" \/ binaryData.threw
        THEN [threw |-> TRUE, response |-> InternalServerError]
        ELSE [threw |-> FALSE,
              response |->
                [Response(200, mimeType.v, [kind |-> "bytes", bytes |-> binaryData.bytes])
                    EXCEPT !.contentDisposition =
                        "attachment; filename=\"" \o encodeURIComponent(JSToString(fileName)) \o "\""]]

\* the catch branch of servePage: the stored value is not JSON
servePlain(kv, key, data, title) ==
    IF LooksLikeMarkup(data) THEN Outcome(Response(200, HtmlType, RawBody(data)), kv)
    ELSE IF title.threw THEN Thrown(kv)
    ELSE Outcome(Response(200, HtmlType,
            [kind |-> "textPage", title |-> title.v, key |-> key,
             pre |-> EscapeHtml(data)]), kv)

\* the branch of servePage for a parsed value with a truthy fileName;
\* download is what serveFileDownload returns or throws for it
serveFile(kv, mimeType, content, download) ==
    IF mimeType.t # "string" THEN Thrown(kv)
    ELSE IF StartsWith(mimeType.v, "image/") THEN Outcome(serveImagePreview(content), kv)
    ELSE [threw |-> download.threw, response |-> download.response, kv |-> kv]

\* the try branch of servePage: the stored value parsed as JSON
serveParsed(kv, data, fileData) ==
    IF Truthy(fileData) /\ Truthy(GetProp(fileData, "fileName"))
    THEN serveFile(kv, GetProp(fileData, "mimeType"), GetProp(fileData, "content"),
                   serveFileDownload(GetProp(fileData, "fileName"),
                                     GetProp(fileData, "mimeType"),
                                     GetProp(fileData, "content")))
    ELSE Outcome(Response(200, HtmlType, RawBody(data)), kv)

\* servePage once KV.get and JSON.parse have answered
serveData(kv, key, data, parsed) ==
    IF ~Truthy(data) THEN Outcome(Response(404, PlainType, TextBody("Page not found")), kv)
    ELSE IF parsed.threw THEN servePlain(kv, key, data.v, decodeURIComponent(key))
    ELSE serveParsed(kv, data.v, parsed.v)

\* servePage(request, key); fault names the KV call that rejects, if any
servePage(kv, key, fault) ==
    IF fault = "get" THEN Thrown(kv)
    ELSE serveData(kv, key, KVGet(kv, key), JSONParse(KVGet(kv, key).v))

----------------------------------------------------------------------------
(* Writing, deleting and renaming a page *)

NoFile == [attached |-> FALSE, name |-> "", type |-> "", bytes |-> <<>>]
File(name, type, bytes) == [attached |-> TRUE, name |-> name, type |-> type, bytes |-> bytes]

\* the string savePage stores for an uploaded file
FileRecord(file) ==
    JSONStringifyFileRecord(file.name, file.type,
        "data:" \o file.type \o ";base64," \o arrayBufferToBase64(file.bytes))

\* the save without the test of file.size: every file part is stored as a file
savePageAnySize(kv, key, form, fault) ==
    IF fault = "put" THEN Outcome(Response(500, DefaultType, TextBody("Save failed")), kv)
    ELSE Outcome(Redirect("/" \o key),
                 KVPut(kv, key, IF form.file.attached THEN FileRecord(form.file)
                                ELSE form.content))

\* savePage(request, key) for the form fields content and file
savePage(kv, key, form, fault) ==
    LET value == IF form.file.attached /\ Len(form.file.bytes) > 0
                 THEN FileRecord(form.file)
                 ELSE form.content
    IN  IF fault = "put" THEN Outcome(Response(500, DefaultType, TextBody("Save failed")), kv)
        ELSE Outcome(Redirect("/" \o key), KVPut(kv, key, value))

\* the delete that looks the page up first and refuses a key that holds none
deletePageStrict(kv, key, fault) ==
    IF fault = "delete" THEN Outcome(Response(500, DefaultType, TextBody("Delete failed")), kv)
    ELSE IF key \notin DOMAIN kv
        THEN Outcome(Response(404, PlainType, TextBody("Page not found")), kv)
    ELSE Outcome(Redirect("/l"), KVDelete(kv, key))

deletePage(kv, key, fault) ==
    IF fault = "delete" THEN Outcome(Response(500, DefaultType, TextBody("Delete failed")), kv)
    ELSE Outcome(Redirect("/l"), KVDelete(kv, key))

\* a rename that takes its write back when the delete fails
renamePageUndoing(kv, oldKey, newKey, fault) ==
    LET data == KVGet(kv, oldKey)
        failed == Response(500, DefaultType, TextBody("Rename failed"))
    IN  IF fault = "get" THEN Outcome(failed, kv)
        ELSE IF ~Truthy(data)
            THEN Outcome(Response(404, PlainType, TextBody("Original page not found")), kv)
        ELSE IF fault \in {"put", "delete"} THEN Outcome(failed, kv)
        ELSE Outcome(Redirect("/" \o newKey), KVDelete(KVPut(kv, newKey, data.v), oldKey))

\* the rename that writes newKey before it looks at what it read
renamePageWriteFirst(kv, oldKey, newKey, fault) ==
    IF fault \in {"get", "put"}
        THEN Outcome(Response(500, DefaultType, TextBody("Rename failed")), kv)
    ELSE IF ~Truthy(KVGet(kv, oldKey))
        THEN Outcome(Response(404, PlainType, TextBody("Original page not found")),
                     KVPut(kv, newKey, JSToString(KVGet(kv, oldKey))))
    ELSE IF fault = "delete"
        THEN Outcome(Response(500, DefaultType, TextBody("Rename failed")),
                     KVPut(kv, newKey, KVGet(kv, oldKey).v))
    ELSE Outcome(Redirect("/" \o newKey), KVDelete(KVPut(kv, newKey, KVGet(kv, oldKey).v), oldKey))

renamePage(kv, oldKey, newKey, fault) ==
    LET data == KVGet(kv, oldKey)
        failed == Response(500, DefaultType, TextBody("Rename failed"))
    IN  IF fault = "get" THEN Outcome(failed, kv)
        ELSE IF ~Truthy(data)
            THEN Outcome(Response(404, PlainType, TextBody("Original page not found")), kv)
        ELSE IF fault = "put" THEN Outcome(failed, kv)
        ELSE IF fault = "delete" THEN Outcome(failed, KVPut(kv, newKey, data.v))
        ELSE Outcome(Redirect("/" \o newKey), KVDelete(KVPut(kv, newKey, data.v), oldKey))

----------------------------------------------------------------------------
(* The forms and the page list *)

ADMIN_PASSWORD == ""
AUTH_COOKIE_NAME == "auth"
AUTH_COOKIE_VALUE == "ok"

renderLoginForm(errorMsg) == [kind |-> "loginForm", error |-> errorMsg]

\* the entities of the markup characters and the quotes
EncodeMarkup(data) ==
    ReplaceAll(ReplaceAll(ReplaceAll(ReplaceAll(ReplaceAll(data,
        "&", "&amp;"), "<", "&lt;"), ">", "&gt;"), "\"", "&quot;"), "'", "&#39;")

\* the textarea value of the edit form: & < > " ' and then the newline, the
\* carriage return and the tab as entities
EncodeForTextarea(data) ==
    ReplaceAll(ReplaceAll(ReplaceAll(EncodeMarkup(data),
        "\n", "&#10;"), "\r", "&#13;"), "\t", "&#9;")

serveEditForm(kv, key, fault) ==
    LET data == KVGet(kv, key)
        text == IF Truthy(data) THEN data.v ELSE ""
        title == decodeURIComponent(key)
    IN  IF fault = "get" \/ title.threw THEN Thrown(kv)
        ELSE Outcome(Response(200, HtmlType,
                [kind |-> "editForm", key |-> key, title |-> title.v,
                 value |-> EncodeForTextarea(text)]), kv)

confirmDeletePage(kv, key) ==
    LET decodedKey == decodeURIComponent(key)
    IN  IF decodedKey.threw THEN Thrown(kv)
        ELSE Outcome(Response(200, HtmlType,
                [kind |-> "confirmDelete", key |-> key, title |-> decodedKey.v]), kv)

serveNewPageForm == Response(200, HtmlType, [kind |-> "newPageForm"])

\* a < b by UTF-16 code units, the order in which KV.list returns the keys
RECURSIVE CodeUnitLess(_, _)
CodeUnitLess(a, b) ==
    IF b = "" THEN FALSE
    ELSE IF a = "" THEN TRUE
    ELSE IF CharAt(a, 1) # CharAt(b, 1) THEN CharCode(CharAt(a, 1)) < CharCode(CharAt(b, 1))
    ELSE CodeUnitLess(Tail(a), Tail(b))

\* the primary collation order of the printable ASCII characters in the root
\* locale: punctuation and symbols, then digits, then letters without case
CollationIndex ==
    TableIndex(" _-,;:!?.'\"()[]{}@*/\\&#%^+<=>|~$0123456789abcdefghijklmnopqrstuvwxyz")

Primary(c) == Pos(CollationIndex, LowerChar(c))

\* a.localeCompare(b) < 0 on the primary level
RECURSIVE PrimaryLess(_, _)
PrimaryLess(a, b) ==
    IF b = "" THEN FALSE
    ELSE IF a = "" THEN TRUE
    ELSE IF Primary(CharAt(a, 1)) # Primary(CharAt(b, 1))
        THEN Primary(CharAt(a, 1)) < Primary(CharAt(b, 1))
    ELSE PrimaryLess(Tail(a), Tail(b))

\* on equal primary keys the first difference of case decides, lower case first
RECURSIVE CaseLess(_, _)
CaseLess(a, b) ==
    IF a = "" \/ b = "" THEN FALSE
    ELSE IF CharAt(a, 1) # CharAt(b, 1) THEN Pos(UpperIndex, CharAt(a, 1)) = 0
    ELSE CaseLess(Tail(a), Tail(b))

\* a.localeCompare(b) < 0
LocaleLess(a, b) ==
    PrimaryLess(a, b) \/ (~PrimaryLess(b, a) /\ CaseLess(a, b))

\* KV.list(): the names of the stored keys, ascending by code units
RECURSIVE KeysInOrder(_)
KeysInOrder(S) ==
    IF S = {} THEN <<>>
    ELSE LET m == CHOOSE x \in S : \A y \in S : ~CodeUnitLess(y, x)
         IN  <<m>> \o KeysInOrder(S \ {m})

KVList(kv) == KeysInOrder(DOMAIN kv)

\* the comparator of serveListPage, on names that decode
DecodedLess(a, b) == LocaleLess(decodeURIComponent(a).v, decodeURIComponent(b).v)

\* seq with x inserted after the last element that does not come after x
RECURSIVE InsertSorted(_, _)
InsertSorted(seq, x) ==
    IF Len(seq) = 0 THEN <<x>>
    ELSE IF DecodedLess(x, seq[Len(seq)]) THEN
        Append(InsertSorted(SubSeq(seq, 1, Len(seq) - 1), x), seq[Len(seq)])
    ELSE Append(seq, x)

\* [...keys].sort(compare): stable
RECURSIVE StableSort(_)
StableSort(seq) ==
    IF Len(seq) = 0 THEN <<>>
    ELSE InsertSorted(StableSort(SubSeq(seq, 1, Len(seq) - 1)), seq[Len(seq)])

\* serveListPage(keys): the entries by localeCompare of the decoded names
serveListPage(keys) ==
    LET sortedKeys == StableSort(keys)
    IN  Response(200, HtmlType,
            [kind |-> "list",
             entries |-> [i \in 1..Len(sortedKeys) |->
                            [key |-> sortedKeys[i],
                             title |-> decodeURIComponent(sortedKeys[i]).v]]])

serveEmptyListPage == Response(200, HtmlType, [kind |-> "emptyList"])

\* listPages(): its try block covers the list call and the rendering
listPages(kv, fault) ==
    LET keys == KVList(kv)
        failed == Response(500, HtmlType, TextBody("Error listing pages"))
    IN  IF fault = "list" THEN Outcome(failed, kv)
        ELSE IF Len(keys) = 0 THEN Outcome(serveEmptyListPage, kv)
        ELSE IF \E i \in 1..Len(keys) : decodeURIComponent(keys[i]).threw THEN Outcome(failed, kv)
        ELSE Outcome(serveListPage(keys), kv)

----------------------------------------------------------------------------
(* handleRequest *)

BlankForm == [content |-> "", file |-> NoFile, password |-> JSNull, pageName |-> ""]

\* a request: its method, the non-empty segments of its path, its Cookie
\* header, its form fields, and the KV call that rejects while it is handled
Req(method, path, cookie, form, fault) ==
    [method |-> method, path |-> path, cookie |-> cookie, form |-> form, fault |-> fault]

\* cookie.includes(`${AUTH_COOKIE_NAME}=${AUTH_COOKIE_VALUE}`)
Authenticated(req) == Includes(req.cookie, AUTH_COOKIE_NAME \o "=" \o AUTH_COOKIE_VALUE)

\* the routing that opens the edit, delete and rename paths only behind the
\* cookie
RouteBehindCookie(v, req) ==
    LET path == req.path
        n == Len(req.path)
    IN  IF n = 0 THEN "status"
        ELSE IF n = 1 /\ path[1] = "l" THEN "list"
        ELSE IF v = "wiki" /\ n = 1 /\ path[1] = "new" THEN "new"
        ELSE IF v = "wiki" /\ n = 1 /\ path[1] = "create"
                /\ (~Authenticated(req) \/ req.method = "POST") THEN "create"
        ELSE IF n = 1 THEN "servePage"
        ELSE IF ~Authenticated(req) THEN "notFound"
        ELSE IF n = 2 /\ path[2] = "e" /\ req.method = "GET" THEN "serveEditForm"
        ELSE IF n = 2 /\ path[2] = "e" /\ req.method = "POST" THEN "savePage"
        ELSE IF n = 2 /\ path[2] = "d" /\ req.method = "GET" THEN "confirmDeletePage"
        ELSE IF n = 2 /\ path[2] = "d" /\ req.method = "POST" THEN "deletePage"
        ELSE IF n = 3 /\ path[2] = "r" THEN "renamePage"
        ELSE "notFound"

\* the branch of handleRequest that answers req, in the order of its tests
Route(v, req) ==
    LET path == req.path
        n == Len(req.path)
    IN  IF n = 0 THEN "status"
        ELSE IF n = 1 /\ path[1] = "l" THEN "list"
        ELSE IF v = "wiki" /\ n = 1 /\ path[1] = "new" THEN "new"
        ELSE IF v = "wiki" /\ n = 1 /\ path[1] = "create"
                /\ (~Authenticated(req) \/ req.method = "POST") THEN "create"
        ELSE IF n = 1 THEN "servePage"
        ELSE IF n = 2 /\ path[2] = "e" /\ req.method = "GET" THEN "serveEditForm"
        ELSE IF n = 2 /\ path[2] = "e" /\ req.method = "POST" THEN "savePage"
        ELSE IF n = 2 /\ path[2] = "d" /\ req.method = "GET" THEN "confirmDeletePage"
        ELSE IF n = 2 /\ path[2] = "d" /\ req.method = "POST" THEN "deletePage"
        ELSE IF n = 3 /\ path[2] = "r" THEN "renamePage"
        ELSE "notFound"

\* the /l branch: the list behind the cookie, else the password form
ListRoute(kv, req) ==
    IF Authenticated(req) THEN listPages(kv, req.fault)
    ELSE IF req.method = "POST" THEN
        IF req.form.password = JSString(ADMIN_PASSWORD)
        THEN Outcome([Redirect("/l") EXCEPT
                        !.setCookie = AUTH_COOKIE_NAME \o "=" \o AUTH_COOKIE_VALUE
                                        \o "; Path=/; HttpOnly"], kv)
        ELSE Outcome(Response(401, HtmlType,
                        renderLoginForm("Invalid password. Please try again.")), kv)
    ELSE Outcome(Response(200, HtmlType, renderLoginForm("")), kv)

\* the /new branch of part_001
NewRoute(kv, req) ==
    IF ~Authenticated(req) THEN Outcome(Response(401, DefaultType, TextBody("Unauthorized")), kv)
    ELSE Outcome(serveNewPageForm, kv)

\* the /create branch of part_001, for the requests it answers itself
CreateRoute(kv, req) ==
    IF ~Authenticated(req) THEN Outcome(Response(401, DefaultType, TextBody("Unauthorized")), kv)
    ELSE IF req.form.pageName = ""
        THEN Outcome(Response(400, DefaultType, TextBody("Page name is required")), kv)
    ELSE IF req.fault = "put"
        THEN Outcome(Response(500, DefaultType, TextBody("Failed to create page")), kv)
    ELSE Outcome(Redirect("/" \o req.form.pageName),
                 KVPut(kv, req.form.pageName, req.form.content))

\* the handler that the route names, on the first path segment as the key
Dispatch(kv, req, route) ==
    CASE route = "status" ->
            Outcome(Response(200, "application/json", [kind |-> "status"]), kv)
      [] route = "list" -> ListRoute(kv, req)
      [] route = "new" -> NewRoute(kv, req)
      [] route = "create" -> CreateRoute(kv, req)
      [] route = "servePage" -> servePage(kv, req.path[1], req.fault)
      [] route = "serveEditForm" -> serveEditForm(kv, req.path[1], req.fault)
      [] route = "savePage" -> savePage(kv, req.path[1], req.form, req.fault)
      [] route = "confirmDeletePage" -> confirmDeletePage(kv, req.path[1])
      [] route = "deletePage" -> deletePage(kv, req.path[1], req.fault)
      [] route = "renamePage" -> renamePage(kv, req.path[1], req.path[3], req.fault)
      [] OTHER -> Outcome(Response(404, DefaultType, TextBody("Not Found")), kv)

\* handleRequest without its try and catch: the exception escapes
CaughtNothing(out) == out

\* the catch of handleRequest: an exception that escapes becomes the plain 500
Caught(out) == IF out.threw THEN Outcome(InternalServerError, out.kv) ELSE out

\* handleRequest(request) on the namespace kv: the response and the namespace
\* it leaves
handleRequest(v, kv, req) == Caught(Dispatch(kv, req, Route(v, req)))

----------------------------------------------------------------------------
(* The workers under arbitrary requests, one at a time *)

\* page keys: a plain segment and the segment of the list route
Keys == {"frag", "l"}

Variants == {"n1", "wiki"}

\* the Cookie header: none, and the one the password form sets
Cookies == {"", "auth=ok"}

\* the request's cookie and the KV call that rejects while it is handled, if
\* any of the calls in faults does: a call rejects only in requests with no cookie
Ambient(faults) ==
    {[cookie |-> c, fault |-> "none"] : c \in Cookies}
        \cup {[cookie |-> "", fault |-> f] : f \in faults}

\* the fields of the edit form: the textarea alone, the textarea with the
\* empty file part a form sends when no file is chosen, the textarea with a file
SaveForms ==
    {[BlankForm EXCEPT !.content = c] : c \in {"", "hello"}}
        \cup {[BlankForm EXCEPT !.content = "hello",
                                !.file = File("", "application/octet-stream", <<>>)],
              [BlankForm EXCEPT !.content = "hello",
                                !.file = File("a.pdf", "application/pdf", <<77>>)]}

\* the worker has answered req with the outcome out
Answered(req, out) ==
    /\ request' = req
    /\ response' = out.response
    /\ KV' = out.kv
    /\ UNCHANGED <<poller, variant, tasks>>

\* the request is handled: handleRequest runs to its response
Handle(req) == Answered(req, handleRequest(variant, KV, req))

Init ==
    /\ variant \in Variants
    /\ KV = <<>>
    /\ request = Req("GET", <<>>, "", BlankForm, "none")
    /\ response = handleRequest(variant, <<>>, request).response
    /\ tasks = <<>>
    /\ poller = <<>>

Status ==
    LET req == Req("GET", <<>>, "", BlankForm, "none")
    IN  Route(variant, req) = "status" /\ Handle(req)

\* /l is asked for: with and without the cookie, with a cookie of another
\* value that starts with ok, with KV.list rejecting behind the cookie
ListOrLogin ==
    \/ \E a \in Ambient({"list"}) \cup {[cookie |-> "auth=okay", fault |-> "none"],
                                        [cookie |-> "auth=ok", fault |-> "list"]} :
        LET req == Req("GET", <<"l">>, a.cookie, BlankForm, a.fault)
        IN  Route(variant, req) = "list" /\ Handle(req)
    \/ \E c \in Cookies, pw \in {JSNull, JSString(""), JSString("guess")} :
        LET req == Req("POST", <<"l">>, c, [BlankForm EXCEPT !.password = pw], "none")
        IN  Route(variant, req) = "list" /\ Handle(req)

NewPage ==
    \E c \in Cookies :
        LET req == Req("GET", <<"new">>, c, BlankForm, "none")
        IN  Route(variant, req) = "new" /\ Handle(req)

Create ==
    \/ \E m \in {"GET", "POST"} :
        LET req == Req(m, <<"create">>, "", BlankForm, "none")
        IN  Route(variant, req) = "create" /\ Handle(req)
    \/ \E name \in Keys \cup {""}, content \in {"", "hello"}, f \in {"none", "put"} :
        LET req == Req("POST", <<"create">>, "auth=ok",
                       [BlankForm EXCEPT !.pageName = name, !.content = content], f)
        IN  Route(variant, req) = "create" /\ Handle(req)

View ==
    \E k \in Keys \cup {"new", "create"}, a \in Ambient({"get"}) :
        LET req == Req("GET", <<k>>, a.cookie, BlankForm, a.fault)
        IN  Route(variant, req) = "servePage" /\ Handle(req)

EditForm ==
    \E k \in Keys, f \in {"none", "get"} :
        LET req == Req("GET", <<k, "e">>, "", BlankForm, f)
        IN  Route(variant, req) = "serveEditForm" /\ Handle(req)

\* a page is saved: the forms of SaveForms, and as text the JSON of an object
\* with a fileName and nothing else
Save ==
    \E k \in Keys,
       form \in SaveForms \cup {[BlankForm EXCEPT !.content = "{\"fileName\":\"x\"}"]},
       a \in Ambient({"put"}) :
        LET req == Req("POST", <<k, "e">>, a.cookie, form, a.fault)
        IN  Route(variant, req) = "savePage" /\ Handle(req)

ConfirmDelete ==
    \E k \in Keys :
        LET req == Req("GET", <<k, "d">>, "", BlankForm, "none")
        IN  Route(variant, req) = "confirmDeletePage" /\ Handle(req)

Delete ==
    \E k \in Keys, a \in Ambient({"delete"}) :
        LET req == Req("POST", <<k, "d">>, a.cookie, BlankForm, a.fault)
        IN  Route(variant, req) = "deletePage" /\ Handle(req)

Rename ==
    \E k \in Keys, k2 \in Keys, m \in {"GET", "POST"}, a \in Ambient({"get", "put", "delete"}) :
        LET req == Req(m, <<k, "r", k2>>, a.cookie, BlankForm, a.fault)
        IN  /\ m = "POST" \/ (a.cookie = "" /\ a.fault = "none")
            /\ Route(variant, req) = "renamePage"
            /\ Handle(req)

\* a path and method no branch of handleRequest answers
Unrouted ==
    \E k \in Keys, r \in {<<"PUT", <<"e">> >>, <<"GET", <<"x">> >>, <<"GET", <<"e", "x">> >>} :
        LET req == Req(r[1], <<k>> \o r[2], "", BlankForm, "none")
        IN  Route(variant, req) = "notFound" /\ Handle(req)

Next ==
    \/ Status
    \/ ListOrLogin
    \/ NewPage
    \/ Create
    \/ View
    \/ EditForm
    \/ Save
    \/ ConfirmDelete
    \/ Delete
    \/ Rename
    \/ Unrouted

Spec == Init /\ [][Next]_vars

----------------------------------------------------------------------------
(* The workers with one page at a time, over many contents and files *)

\* the longest text drawn from Alphabet
MaxLen == 3

\* the largest number of bytes of an uploaded file
MaxFileLen == 3

\* the texts of at most n of the characters servePage escapes, white space
\* and a letter
RECURSIVE Words(_)
Words(n) ==
    IF n = 0 THEN {""}
    ELSE Words(n - 1) \cup {w \o c : w \in Words(n - 1), c \in {"&", "<", ">", "\n", " ", "a"}}

\* the texts a user types: the short ones, text with markup, text with an
\* entity, JSON values
Texts ==
    Words(MaxLen) \cup
    {"hello", "hello\n<b>world</b>", "<div>hi</div>", "<DIV>x", "see <Style>",
     "<!doctype html>", "&lt;", "42", " 42 ", "true", "null", "[1]",
     "\"<b>q</b>\"", "\"<div>\"", "{\"a\":1}", "{\"fileName\":\"\"}",
     "{\"fileName\":\"x\"}",
     "{\"fileName\":\"x\",\"mimeType\":\"text/plain\",\"content\":\"abc\"}",
     "{\"fileName\":\"x\",\"mimeType\":\"image/png\"}"}

\* the byte strings of at most n bytes
RECURSIVE ByteStrings(_)
ByteStrings(n) ==
    IF n = 0 THEN {<<>>}
    ELSE ByteStrings(n - 1) \cup {Append(b, x) : b \in ByteStrings(n - 1), x \in {0, 255}}

\* the files a user uploads: with and without a name, a type and bytes
Uploads ==
    {File(n, t, b) : n \in {"", "my file&.pdf"},
                     t \in {"", "image/png", "application/pdf"},
                     b \in ByteStrings(MaxFileLen)}

\* keys: two plain segments and one with a % that starts no escape
RenderKeys == {"frag", "100%", "notes"}

\* the fields of the edit form: the textarea alone, or with a file part
RenderForms ==
    {[BlankForm EXCEPT !.content = c] : c \in Texts}
        \cup {[BlankForm EXCEPT !.content = "hello", !.file = f] : f \in Uploads}

\* a page is saved into the empty namespace
SaveFirst ==
    \E k \in RenderKeys, form \in RenderForms :
        LET req == Req("POST", <<k, "e">>, "", form, "none")
        IN  KV = <<>> /\ Route(variant, req) = "savePage" /\ Handle(req)

\* the page is saved over
SaveAgain ==
    \E k \in DOMAIN KV, form \in SaveForms :
        LET req == Req("POST", <<k, "e">>, "", form, "none")
        IN  Route(variant, req) = "savePage" /\ Handle(req)

\* the page is read, or the key frag whether it holds a page or not
ViewSaved ==
    \E k \in DOMAIN KV \cup {"frag"} :
        LET req == Req("GET", <<k>>, "", BlankForm, "none")
        IN  Route(variant, req) = "servePage" /\ Handle(req)

DeleteSaved ==
    \E k \in DOMAIN KV :
        LET req == Req("POST", <<k, "d">>, "", BlankForm, "none")
        IN  Route(variant, req) = "deletePage" /\ Handle(req)

\* the list of the stored page is asked for, with the cookie
ListSaved ==
    LET req == Req("GET", <<"l">>, "auth=ok", BlankForm, "none")
    IN  KV # <<>> /\ Route(variant, req) = "list" /\ Handle(req)

NextRender ==
    \/ SaveFirst
    \/ SaveAgain
    \/ ViewSaved
    \/ DeleteSaved
    \/ ListSaved

SpecRender == Init /\ [][NextRender]_vars

----------------------------------------------------------------------------
(* The page store contract: rename and delete *)

\* get(k) of the page store on the namespace kv: what servePage answers
PageGet(kv, k) == servePage(kv, k, "none").response

\* the step handles a rename request during which no KV call rejects
RenameStep == Route(variant, request') = "renamePage" /\ request'.fault = "none"

\* the step handles a POST /{k}/d during which no KV call rejects
DeleteStep == Route(variant, request') = "deletePage" /\ request'.fault = "none"

\* C1: a rename(k1, k2) with k1 # k2, of a key k1 that holds a value v, ends
\* with v under k2 and nothing under k1: it answers 302, and then get(k2)
\* finds the page and get(k1) answers 404
RenameMovesTheValue ==
    [][(RenameStep /\ request'.path[1] # request'.path[3] /\ request'.path[1] \in DOMAIN KV)
        => /\ response'.status = 302
           /\ request'.path[3] \in DOMAIN KV'
           /\ KV'[request'.path[3]] = KV[request'.path[1]]
           /\ request'.path[1] \notin DOMAIN KV'
           /\ PageGet(KV', request'.path[1]).status = 404]_vars

\* C2: a POST /{k}/d answers 302 to /l whether or not k holds a value, the
\* get(k) after it answers 404, every other key keeps what it held, and a
\* second delete of k leaves the store as the first left it
DeleteIsIdempotent ==
    [][DeleteStep
        => /\ response'.status = 302
           /\ response'.location = "/l"
           /\ PageGet(KV', request'.path[1]).status = 404
           /\ \A k \in (DOMAIN KV \cup DOMAIN KV') \ {request'.path[1]} :
                KVGet(KV', k) = KVGet(KV, k)
           /\ deletePage(KV', request'.path[1], "none").response = response'
           /\ deletePage(KV', request'.path[1], "none").kv = KV']_vars

\* a delete of a key that held no page has been answered, next to a page
\* that is still there
DeleteOfAbsentKeyAnswered ==
    /\ Route(variant, request) = "deletePage"
    /\ request.fault = "none"
    /\ request.path[1] = "frag"
    /\ response.status = 302
    /\ KV = [k \in {"l"} |-> "hello"]

\* C3: a rename of a source key that holds no value answers 404 and leaves
\* the store as it was, for every key
RenameOfAbsentSourceWritesNothing ==
    [][(RenameStep /\ request'.path[1] \notin DOMAIN KV)
        => /\ response'.status = 404
           /\ KV' = KV]_vars

\* a rename of the absent key frag onto l, which holds a page, has been refused
RenameOfAbsentSourceRefused ==
    /\ Route(variant, request) = "renamePage"
    /\ request.fault = "none"
    /\ request.path = <<"frag", "r", "l">>
    /\ response.status = 404
    /\ KV = [k \in {"l"} |-> "hello"]

----------------------------------------------------------------------------
(* Saving a page and reading it back *)

\* the last request was a save that answered 302
Saved == Route(variant, request) = "savePage" /\ response.status = 302

\* the key, the text and the file part of the last request
SavedKey == request.path[1]
SavedText == request.form.content
SavedFile == request.form.file

\* text holds one of the markup triggers, letters compared without case
ContainsTrigger(text) ==
    \E trig \in MarkupTriggers, i \in 1..Len(text) :
        /\ i + Len(trig) - 1 <= Len(text)
        /\ \A j \in 1..Len(trig) :
            LowerChar(CharAt(text, i + j - 1)) = LowerChar(CharAt(trig, j))

\* the entity that stands for a character in a preformatted block
Entity(c) ==
    CASE c = "&" -> "&amp;"
      [] c = "<" -> "&lt;"
      [] c = ">" -> "&gt;"
      [] OTHER -> c

\* the characters i..j of text, each by its entity
RECURSIVE EntitiesOf(_, _, _)
EntitiesOf(text, i, j) ==
    IF i > j THEN ""
    ELSE IF i = j THEN Entity(CharAt(text, i))
    ELSE EntitiesOf(text, i, (i + j) \div 2) \o EntitiesOf(text, (i + j) \div 2 + 1, j)

\* the response is the page that shows text in its preformatted block
ShowsPreformatted(resp, text) ==
    /\ resp.status = 200
    /\ resp.body.kind = "textPage"
    /\ resp.body.pre = EntitiesOf(text, 1, Len(text))

\* the response is the stored string itself as the HTML document
ShowsRaw(resp, text) == resp = Response(200, HtmlType, RawBody(text))

\* the response serves a file: the image preview or the download
ServesFile(resp) == resp.status = 200 /\ resp.body.kind \in {"imagePreview", "bytes"}

\* text is JSON, of an object with a fileName that is not empty
IsFileRecord(text) ==
    /\ ~JSONParse(text).threw
    /\ Truthy(GetProp(JSONParse(text).v, "fileName"))

\* C4: a save of a text that is not JSON and holds no markup trigger, with no
\* file, stores the text as it is, and the get of the key after it shows the
\* text in the preformatted block with & < > as entities and every other
\* character as it is, for every key
TextRoundTrip ==
    (Saved /\ ~SavedFile.attached /\ JSONParse(SavedText).threw /\ ~ContainsTrigger(SavedText))
        => /\ KVGet(KV, SavedKey) = JSString(SavedText)
           /\ ShowsPreformatted(PageGet(KV, SavedKey), SavedText)

\* C5: get serves a stored value as a file exactly if the value is JSON of an
\* object with a fileName that is not empty; no other stored value is served
\* as a file
ServedAsFileIffFileRecord ==
    \A k \in DOMAIN KV : ServesFile(PageGet(KV, k)) <=> IsFileRecord(KV[k])

\* C6: a stored value that is JSON without a fileName is shown like a text
\* that is not JSON: as it is if it holds a markup trigger, and else in the
\* preformatted block with & < > as entities
JsonWithoutFileNameShownAsText ==
    \A k \in DOMAIN KV :
        (~JSONParse(KV[k]).threw /\ ~IsFileRecord(KV[k]))
            => IF ContainsTrigger(KV[k])
               THEN ShowsRaw(PageGet(KV, k), KV[k])
               ELSE ShowsPreformatted(PageGet(KV, k), KV[k])

\* the last request was a save, answered 302, with a file part
SavedUpload == Saved /\ SavedFile.attached

\* the data URI of a file of type mimeType: its head, before the payload
DataUriHead(mimeType) == "data:" \o mimeType \o ";base64,"

\* uri is a data URI of type mimeType whose payload decodes to bytes
IsDataUriOf(uri, mimeType, bytes) ==
    /\ StartsWith(uri, DataUriHead(mimeType))
    /\ atob(Substring(uri, Len(DataUriHead(mimeType)) + 1, Len(uri)))
            = [threw |-> FALSE, bytes |-> bytes]

\* the response is the image preview of a file
ShowsImage(resp, file) ==
    /\ resp.status = 200
    /\ resp.contentType = HtmlType
    /\ resp.body.kind = "imagePreview"
    /\ IsDataUriOf(resp.body.src, file.type, file.bytes)

\* the head and the end of the Content-Disposition of a download
DispositionHead == "attachment; filename=\""

\* header names the file: its name percent-encoded between the quotes
CarriesFileName(header, name) ==
    /\ StartsWith(header, DispositionHead)
    /\ CharAt(header, Len(header)) = "\""
    /\ decodeURIComponent(Substring(header, Len(DispositionHead) + 1, Len(header) - 1))
            = [threw |-> FALSE, v |-> name]

\* the response is the download of a file
DownloadsFile(resp, file) ==
    /\ resp.status = 200
    /\ resp.contentType = file.type
    /\ CarriesFileName(resp.contentDisposition, file.name)
    /\ resp.body = [kind |-> "bytes", bytes |-> file.bytes]

\* C7 as the specification words it: the save of every uploaded file whose
\* type starts with image/, then the get of the key, answers the image
\* preview whose data URI has that type and decodes to the uploaded bytes
ImageRoundTripOfAnyUpload ==
    (SavedUpload /\ StartsWith(SavedFile.type, "image/"))
        => ShowsImage(PageGet(KV, SavedKey), SavedFile)

\* C7: the save of an uploaded file that has a name and at least one byte
\* and whose type starts with image/, then the get of the key, answers the
\* image preview whose data URI has that type and decodes to the uploaded
\* bytes
ImageRoundTrip ==
    (SavedUpload /\ StartsWith(SavedFile.type, "image/")
        /\ Len(SavedFile.bytes) > 0 /\ SavedFile.name # "")
        => ShowsImage(PageGet(KV, SavedKey), SavedFile)

\* an image of three bytes has been saved and the key shows it
ImageSavedAndShown ==
    /\ SavedUpload
    /\ SavedFile = File("my file&.pdf", "image/png", <<0, 255, 255>>)
    /\ PageGet(KV, SavedKey).body.kind = "imagePreview"
    /\ PageGet(KV, SavedKey).body.src = "data:image/png;base64,AP//"

\* C8 as the specification words it: the save of every uploaded file whose
\* type does not start with image/, then the get of the key, answers a
\* download with the type as Content-Type, the file name in
\* Content-Disposition and the uploaded bytes as body
DownloadRoundTripOfAnyUpload ==
    (SavedUpload /\ ~StartsWith(SavedFile.type, "image/"))
        => DownloadsFile(PageGet(KV, SavedKey), SavedFile)

\* C8: the save of an uploaded file that has a name and at least one byte
\* and whose type does not start with image/, then the get of the key,
\* answers a download with the type as Content-Type, the file name
\* percent-encoded in Content-Disposition and the uploaded bytes as body
DownloadRoundTrip ==
    (SavedUpload /\ ~StartsWith(SavedFile.type, "image/")
        /\ Len(SavedFile.bytes) > 0 /\ SavedFile.name # "")
        => DownloadsFile(PageGet(KV, SavedKey), SavedFile)

\* a file of two bytes has been saved and the key downloads it
FileSavedAndDownloaded ==
    /\ SavedUpload
    /\ SavedFile = File("my file&.pdf", "application/pdf", <<255, 0>>)
    /\ PageGet(KV, SavedKey).contentDisposition = "attachment; filename=\"my%20file%26.pdf\""
    /\ PageGet(KV, SavedKey).body.bytes = <<255, 0>>

\* text is the FileRecord of file: JSON of the object with fileName,
\* mimeType and content, the content a data URI of the file's bytes
IsFileRecordOf(text, file) ==
    /\ ~JSONParse(text).threw
    /\ JSONParse(text).v.t = "object"
    /\ Len(JSONParse(text).v.v) = 3
    /\ JSONParse(text).v.v[1] = [k |-> "fileName", v |-> JSString(file.name)]
    /\ JSONParse(text).v.v[2] = [k |-> "mimeType", v |-> JSString(file.type)]
    /\ JSONParse(text).v.v[3].k = "content"
    /\ JSONParse(text).v.v[3].v.t = "string"
    /\ IsDataUriOf(JSONParse(text).v.v[3].v.v, file.type, file.bytes)

\* C9 as the specification words it: a save with no file stores the content
\* as it is, a save with a file of any size stores the FileRecord of the
\* file, and the key holds what the last save stored
SaveStoresAnyUploadAsFileRecord ==
    Saved => /\ SavedKey \in DOMAIN KV
             /\ IF SavedFile.attached
                THEN IsFileRecordOf(KV[SavedKey], SavedFile)
                ELSE KV[SavedKey] = SavedText

\* C9: a save with no file, or with a file part of no bytes, stores the
\* content as it is, a save with a file of at least one byte stores the
\* FileRecord of the file whatever the content is, and the key holds what
\* the last save stored whatever it held before
SaveStoresContentOrFileRecord ==
    Saved => /\ SavedKey \in DOMAIN KV
             /\ IF SavedFile.attached /\ Len(SavedFile.bytes) > 0
                THEN IsFileRecordOf(KV[SavedKey], SavedFile)
                ELSE KV[SavedKey] = SavedText

\* a save with a file part of no bytes has stored the content of the form
EmptyFilePartSavedAsContent ==
    /\ Saved
    /\ SavedFile.attached
    /\ Len(SavedFile.bytes) = 0
    /\ SavedText = "hello"
    /\ KV = [k \in {SavedKey} |-> "hello"]

\* C10: get answers every stored value that is not JSON and holds a markup
\* trigger, in letters of either case, with the value itself as the HTML
\* document, neither escaped nor wrapped
MarkupReturnedRaw ==
    \A k \in DOMAIN KV :
        (JSONParse(KV[k]).threw /\ ContainsTrigger(KV[k]))
            => ShowsRaw(PageGet(KV, k), KV[k])

\* <div>hi</div> under frag has been read and came back as it is
FragReturnedRaw ==
    /\ Route(variant, request) = "servePage"
    /\ request.path = <<"frag">>
    /\ KV = [k \in {"frag"} |-> "<div>hi</div>"]
    /\ response = Response(200, HtmlType, RawBody("<div>hi</div>"))

----------------------------------------------------------------------------
(* The scenarios of the page store *)

\* the text of the notes scenario
NotesText == "hello\n<b>world</b>"

\* the last request was the save of the notes scenario
NotesSaved ==
    Saved /\ SavedKey = "notes" /\ SavedText = NotesText /\ ~SavedFile.attached

\* C11 as the specification words it: after the save of hello, newline,
\* <b>world</b> under notes the key holds the text as it is, and GET /notes
\* shows hello&#10;&lt;b&gt;world&lt;/b&gt; in the preformatted block, the
\* newline as the entity &#10;
NotesShownWithNewlineEntity ==
    NotesSaved
        => /\ KV["notes"] = NotesText
           /\ PageGet(KV, "notes").body.kind = "textPage"
           /\ PageGet(KV, "notes").body.pre = "hello&#10;&lt;b&gt;world&lt;/b&gt;"

\* C11: after the save of hello, newline, <b>world</b> under notes the key
\* holds the text as it is, and GET /notes answers 200 with the page whose
\* preformatted block holds hello, the newline itself, and
\* &lt;b&gt;world&lt;/b&gt;: only & < > become entities
NotesShownEscaped ==
    NotesSaved
        => /\ KV["notes"] = NotesText
           /\ PageGet(KV, "notes").status = 200
           /\ PageGet(KV, "notes").contentType = HtmlType
           /\ PageGet(KV, "notes").body.kind = "textPage"
           /\ PageGet(KV, "notes").body.pre = "hello\n&lt;b&gt;world&lt;/b&gt;"

\* the notes have been saved and the save has been answered
NotesSavedAndStored ==
    /\ NotesSaved
    /\ KV = [k \in {"notes"} |-> NotesText]
    /\ PageGet(KV, "notes").body.pre = "hello\n&lt;b&gt;world&lt;/b&gt;"

\* the last request was a list request with the cookie, and KV.list answered
Listed == Route(variant, request) = "list" /\ Authenticated(request) /\ request.fault = "none"

\* C12: a list request on a store with no key answers the view of no pages;
\* on any other store it answers the list that names every key of the store
\* once, the names ascending by localeCompare of the decoded names
ListShowsEveryKeyInOrder ==
    Listed
        => IF DOMAIN KV = {} THEN response = serveEmptyListPage
           ELSE /\ response.status = 200
                /\ response.body.kind = "list"
                /\ Len(response.body.entries) = Cardinality(DOMAIN KV)
                /\ {response.body.entries[i].key : i \in 1..Len(response.body.entries)}
                        = DOMAIN KV
                /\ \A i, j \in 1..Len(response.body.entries) :
                        i < j => ~LocaleLess(response.body.entries[j].title,
                                             response.body.entries[i].title)

----------------------------------------------------------------------------
(* The cookie gate, the open routes and the error mapping *)

\* the Cookie header of req carries the pair auth=ok: the name auth with the
\* value ok, among the pairs that "; " separates
CarriesAuthPair(req) ==
    \E i \in 1..Len(Split(req.cookie, "; ")) :
        Split(req.cookie, "; ")[i] = AUTH_COOKIE_NAME \o "=" \o AUTH_COOKIE_VALUE

\* C13: while KV.list answers, /l is answered with the page list exactly if
\* the request carries the pair auth=ok; without it a POST of the password
\* gets 302 to /l with the cookie, a POST of another password 401 with the
\* login form, any other request the login form with 200; /new and /create
\* of part_001 answer 401 without the pair and write nothing
CookieGate ==
    [][/\ (Route(variant, request') = "list" /\ request'.fault = "none")
            => IF CarriesAuthPair(request')
               THEN /\ response'.status = 200
                    /\ response'.body.kind \in {"list", "emptyList"}
               ELSE IF request'.method = "POST"
                        /\ request'.form.password = JSString(ADMIN_PASSWORD)
               THEN /\ response'.status = 302
                    /\ response'.location = "/l"
                    /\ response'.setCookie = "auth=ok; Path=/; HttpOnly"
               ELSE IF request'.method = "POST"
               THEN /\ response'.status = 401
                    /\ response'.body.kind = "loginForm"
               ELSE /\ response'.status = 200
                    /\ response'.body.kind = "loginForm"
       /\ (request'.path \in {<<"new">>, <<"create">>} /\ variant = "wiki"
                /\ ~CarriesAuthPair(request'))
            => /\ response'.status = 401
               /\ KV' = KV]_vars

\* what handleRequest makes of the request handled last, had it come with
\* the cookie header c and the method m
Alike(c, m) ==
    handleRequest(variant, KV, [request' EXCEPT !.cookie = c, !.method = m])

\* C14: a POST /{key}/e, a POST /{key}/d and a /{key}/r/{newKey} are answered
\* by savePage, deletePage and renamePage and leave the store as these leave
\* it, the same with and without the auth cookie, and the rename the same
\* for GET and for POST
MutationsNeedNoCookie ==
    [][/\ Route(variant, request') = "savePage"
            => /\ \A c \in Cookies : Alike(c, "POST") = Outcome(response', KV')
               /\ KV' = savePage(KV, request'.path[1], request'.form, request'.fault).kv
               /\ request'.fault = "none" => request'.path[1] \in DOMAIN KV'
       /\ Route(variant, request') = "deletePage"
            => /\ \A c \in Cookies : Alike(c, "POST") = Outcome(response', KV')
               /\ request'.fault = "none" => request'.path[1] \notin DOMAIN KV'
       /\ Route(variant, request') = "renamePage"
            => /\ \A c \in Cookies, m \in {"GET", "POST"} :
                    Alike(c, m) = Outcome(response', KV')
               /\ KV' = renamePage(KV, request'.path[1], request'.path[3],
                                   request'.fault).kv]_vars

\* a GET with no cookie has renamed l, which held hello, to frag
RenamedByGetWithoutCookie ==
    /\ request.method = "GET"
    /\ request.cookie = ""
    /\ request.path = <<"l", "r", "frag">>
    /\ response = Redirect("/frag")
    /\ KV = [k \in {"frag"} |-> "hello"]

\* the bodies of the 500 responses: the texts the catch blocks name
FixedMessages ==
    {TextBody(t) : t \in {"Internal Server Error", "Save failed", "Delete failed",
                          "Rename failed", "Error listing pages", "Failed to create page"}}

\* req makes the KV call that req.fault names, which rejects
StoreCallRejects(req) ==
    LET route == Route(variant, req)
    IN  \/ route \in {"servePage", "serveEditForm"} /\ req.fault = "get"
        \/ route = "savePage" /\ req.fault = "put"
        \/ route = "deletePage" /\ req.fault = "delete"
        \/ route = "renamePage" /\ req.fault = "get"
        \/ route = "renamePage" /\ req.fault \in {"put", "delete"}
                /\ Truthy(KVGet(KV, req.path[1]))
        \/ route = "list" /\ req.fault = "list" /\ Authenticated(req)
        \/ route = "create" /\ req.fault = "put" /\ Authenticated(req)
                /\ req.method = "POST" /\ req.form.pageName # ""

\* C15: no exception escapes handleRequest and every request gets a
\* response; a page that is not stored gives 404 on get and on rename, an
\* empty page name on create 400 and no write, a wrong password 401; a KV
\* call that rejects gives 500, and the body of every 500 is one of the
\* fixed texts
ErrorMapping ==
    [][/\ ~handleRequest(variant, KV, request').threw
       /\ response'.status \in {200, 302, 400, 401, 404, 500}
       /\ (Route(variant, request') = "servePage" /\ request'.fault = "none"
                /\ request'.path[1] \notin DOMAIN KV)
            => response'.status = 404
       /\ (Route(variant, request') = "renamePage" /\ request'.fault # "get"
                /\ request'.path[1] \notin DOMAIN KV)
            => response'.status = 404 /\ KV' = KV
       /\ (Route(variant, request') = "create" /\ Authenticated(request')
                /\ request'.form.pageName = "")
            => response'.status = 400 /\ KV' = KV
       /\ (Route(variant, request') = "list" /\ ~Authenticated(request')
                /\ request'.method = "POST"
                /\ request'.form.password # JSString(ADMIN_PASSWORD))
            => response'.status = 401
       /\ StoreCallRejects(request') => response'.status = 500
       /\ response'.status = 500 => response'.body \in FixedMessages]_vars

\* the page whose JSON has a fileName and no mimeType has been read: the
\* TypeError of the rendering was answered with the plain 500
RenderingErrorAnswered ==
    /\ Route(variant, request) = "servePage"
    /\ request.fault = "none"
    /\ request.path = <<"frag">>
    /\ KV = [k \in {"frag"} |-> "{\"fileName\":\"x\"}"]
    /\ response = InternalServerError

----------------------------------------------------------------------------
(* The file API worker (src/unnamed/part_000, simple-file-api) on its KV    *)
(* namespace FILES, here KV.  A PUT, a GET and a DELETE make two KV calls   *)
(* each; between the two the request is in flight and other requests run.   *)
(* A body is a string.                                                      *)

\* the largest number of requests in flight at a time
MaxInFlight == 2

\* req suspends at an await with its locals and joins the requests in
\* flight; alone records that no other request has been in flight beside it
Await(req, locals) ==
    /\ Cardinality(DOMAIN tasks) < MaxInFlight
    /\ tasks' = [i \in DOMAIN tasks \cup {CHOOSE n \in 1..MaxInFlight : n \notin DOMAIN tasks} |->
                    IF i \in DOMAIN tasks THEN [tasks[i] EXCEPT !.alone = FALSE]
                    ELSE [req |-> req, locals |-> locals, alone |-> DOMAIN tasks = {}]]
    /\ UNCHANGED <<poller, variant, request, response>>

\* req is answered with resp, and rest are the requests still in flight
Answer(req, alone, resp, rest) ==
    /\ request' = [req EXCEPT !.alone = alone]
    /\ response' = resp
    /\ tasks' = [i \in DOMAIN rest |-> [rest[i] EXCEPT !.alone = alone /\ rest[i].alone]]
    /\ UNCHANGED <<poller, variant>>

\* JSON.stringify({contentType, size, uploadTime})
FilesMetadata(contentType, size, uploadTime) ==
    LET RECURSIVE Decimal(_)
        Decimal(n) == IF n < 10 THEN CharAt("0123456789", n + 1)
                      ELSE Decimal(n \div 10) \o CharAt("0123456789", (n % 10) + 1)
    IN  "{\"contentType\":" \o Quote(contentType) \o ",\"size\":" \o Decimal(size)
            \o ",\"uploadTime\":" \o Decimal(uploadTime) \o "}"

\* PUT /{fileName}: the content is put, then the metadata
FilesPut ==
    \/ \E u \in {<<"a", JSString("text/plain"), "x">>, <<"a", JSNull, "yy">>,
                  <<"a:metadata", JSNull, "null">>},
          fault \in {"none", "first"} :
        LET req == [method |-> "PUT", path |-> "/" \o u[1], contentType |-> u[2],
                    body |-> u[3], now |-> 1, fault |-> fault, alone |-> TRUE]
        IN  IF fault = "first"
            THEN /\ KV' = KV
                 /\ Answer(req, DOMAIN tasks = {},
                           Response(500, DefaultType, TextBody("Internal error")), tasks)
            ELSE /\ KV' = KVPut(KV, u[1], u[3])
                 /\ Await(req, JSNull)
    \/ \E id \in DOMAIN tasks :
        LET req == tasks[id].req
            fileName == Tail(req.path)
            contentType == IF Truthy(req.contentType) THEN req.contentType.v
                           ELSE "application/octet-stream"
            rest == [i \in DOMAIN tasks \ {id} |-> tasks[i]]
        IN  /\ req.method = "PUT"
            /\ IF req.fault = "second"
               THEN /\ KV' = KV
                    /\ Answer(req, tasks[id].alone,
                              Response(500, DefaultType, TextBody("Internal error")), rest)
               ELSE /\ KV' = KVPut(KV, fileName \o ":metadata",
                                   FilesMetadata(contentType, Len(req.body), req.now))
                    /\ Answer(req, tasks[id].alone,
                              Response(200, "application/json",
                                  [kind |-> "uploaded", file |-> fileName,
                                   size |-> Len(req.body), type |-> contentType]), rest)

\* GET /{fileName}: the content is read, then the metadata
FilesGet ==
    \/ \E f \in {"a"}, fault \in {"none", "first"} :
        LET req == [method |-> "GET", path |-> "/" \o f, contentType |-> JSNull, body |-> "",
                    now |-> 1, fault |-> fault, alone |-> TRUE]
        IN  /\ KV' = KV
            /\ IF fault = "first"
               THEN Answer(req, DOMAIN tasks = {},
                           Response(500, DefaultType, TextBody("Internal error")), tasks)
               ELSE Await(req, KVGet(KV, f))
    \/ \E id \in DOMAIN tasks :
        LET req == tasks[id].req
            content == tasks[id].locals
            key == Tail(req.path) \o ":metadata"
            metadata == IF key \in DOMAIN KV THEN JSONParse(KV[key])
                        ELSE [threw |-> FALSE, v |-> JSNull]
            rest == [i \in DOMAIN tasks \ {id} |-> tasks[i]]
        IN  /\ req.method = "GET"
            /\ KV' = KV
            /\ Answer(req, tasks[id].alone,
                      IF req.fault = "second" \/ metadata.threw
                        THEN Response(500, DefaultType, TextBody("Internal error"))
                      ELSE IF content.t = "null" \/ metadata.v.t = "null"
                        THEN Response(404, DefaultType, TextBody("File not found"))
                      ELSE Response(200, JSToString(GetProp(metadata.v, "contentType")),
                                    [kind |-> "content", content |-> content.v]),
                      rest)

\* DELETE /{fileName}: the content is deleted, then the metadata
FilesDelete ==
    \/ \E f \in {"a", "a:metadata"}, fault \in {"none", "first"} :
        LET req == [method |-> "DELETE", path |-> "/" \o f, contentType |-> JSNull, body |-> "",
                    now |-> 1, fault |-> fault, alone |-> TRUE]
        IN  IF fault = "first"
            THEN /\ KV' = KV
                 /\ Answer(req, DOMAIN tasks = {},
                           Response(500, DefaultType, TextBody("Internal error")), tasks)
            ELSE /\ KV' = KVDelete(KV, f)
                 /\ Await(req, JSNull)
    \/ \E id \in DOMAIN tasks :
        LET req == tasks[id].req
            rest == [i \in DOMAIN tasks \ {id} |-> tasks[i]]
        IN  /\ req.method = "DELETE"
            /\ IF req.fault = "second"
               THEN /\ KV' = KV
                    /\ Answer(req, tasks[id].alone,
                              Response(500, DefaultType, TextBody("Internal error")), rest)
               ELSE /\ KV' = KVDelete(KV, Tail(req.path) \o ":metadata")
                    /\ Answer(req, tasks[id].alone,
                              Response(200, "application/json",
                                  [kind |-> "deleted", deleted |-> Tail(req.path)]), rest)

\* the path /list, whatever the method: the keys that do not end in
\* :metadata, each with the size and the type of its metadata; the list is
\* asked for while no other request is in flight
FilesList ==
    LET names == SelectSeq(KVList(KV),
                    LAMBDA k : Substring(k, Len(k) - 8, Len(k)) # ":metadata")
        metadata == [i \in 1..Len(names) |->
                        IF names[i] \o ":metadata" \in DOMAIN KV
                        THEN JSONParse(KV[names[i] \o ":metadata"])
                        ELSE [threw |-> FALSE, v |-> JSNull]]
        listed == IF \E i \in 1..Len(names) : metadata[i].threw
                    THEN Response(500, DefaultType, TextBody("Internal error"))
                  ELSE Response(200, "application/json",
                        [kind |-> "files",
                         files |-> [i \in 1..Len(names) |->
                            [name |-> names[i],
                             size |-> IF Truthy(GetProp(metadata[i].v, "size"))
                                      THEN GetProp(metadata[i].v, "size")
                                      ELSE JSNumber("0"),
                             type |-> IF Truthy(GetProp(metadata[i].v, "contentType"))
                                      THEN GetProp(metadata[i].v, "contentType")
                                      ELSE JSString("application/octet-stream")]]])
    IN  \E m \in {"GET", "PUT"}, fault \in {"none", "first"} :
            /\ DOMAIN tasks = {}
            /\ KV' = KV
            /\ Answer([method |-> m, path |-> "/list",
                       contentType |-> JSString("text/plain"), body |-> "x",
                       now |-> 1, fault |-> fault, alone |-> TRUE],
                      DOMAIN tasks = {},
                      IF fault = "first"
                        THEN Response(500, DefaultType, TextBody("Internal error"))
                        ELSE listed,
                      tasks)

\* the preflight, the usage at /, and the methods the worker does not know
FilesOther ==
    \E r \in {<<"OPTIONS", "/a">>, <<"OPTIONS", "/list">>, <<"GET", "/">>, <<"PUT", "/">>,
              <<"POST", "/a">>} :
        LET req == [method |-> r[1], path |-> r[2], contentType |-> JSNull, body |-> "",
                    now |-> 1, fault |-> "none", alone |-> TRUE]
        IN  /\ KV' = KV
            /\ Answer(req, DOMAIN tasks = {},
                      IF r[1] = "OPTIONS" THEN Response(200, "", [kind |-> "preflight"])
                      ELSE IF r[2] = "/" THEN Response(200, "application/json", [kind |-> "usage"])
                      ELSE Response(405, DefaultType, TextBody("Invalid request")),
                      tasks)

SpecFiles ==
    /\ variant = "files"
    /\ KV = <<>>
    /\ tasks = <<>>
    /\ poller = <<>>
    /\ request = [method |-> "GET", path |-> "/", contentType |-> JSNull, body |-> "",
                  now |-> 1, fault |-> "none", alone |-> TRUE]
    /\ response = Response(200, "application/json", [kind |-> "usage"])
    /\ [][FilesPut \/ FilesGet \/ FilesDelete \/ FilesList \/ FilesOther]_vars

----------------------------------------------------------------------------
(* The file API: upload, download and listing *)

\* the step answers a request, which request' then names
FilesAnswers == Cardinality(DOMAIN tasks') <= Cardinality(DOMAIN tasks)

\* the file name of the request answered: its path after the slash
FileName(req) == Tail(req.path)

\* the metadata the store kv holds for the file name f, parsed; null if none
StoredMetadata(kv, f) ==
    IF f \o ":metadata" \in DOMAIN kv THEN JSONParse(kv[f \o ":metadata"]).v ELSE JSNull

\* kv holds the file f: its content b and, as its metadata, the type t
HoldsFile(kv, f, b, t) ==
    /\ f \in DOMAIN kv
    /\ kv[f] = b
    /\ GetProp(StoredMetadata(kv, f), "contentType") = JSString(t)

\* C16: a PUT /f of the body b with the content type t, for any file name f
\* that is not empty, that ran beside no other request and was answered 200
\* leaves b and t stored for f; a GET /f that ran beside no other request
\* while no KV call rejected answers 404 if the content key or the metadata
\* key of f is not stored, and else the stored body with the stored type
UploadThenDownload ==
    [][FilesAnswers =>
        /\ (request'.method = "PUT" /\ FileName(request') # "" /\ request'.alone
                /\ Truthy(request'.contentType) /\ response'.status = 200)
            => HoldsFile(KV', FileName(request'), request'.body, request'.contentType.v)
        /\ (request'.method = "GET" /\ FileName(request') # "" /\ request'.alone
                /\ request'.fault = "none")
            => IF FileName(request') \notin DOMAIN KV
                    \/ FileName(request') \o ":metadata" \notin DOMAIN KV
               THEN response'.status = 404
               ELSE \A t \in {"text/plain", "application/octet-stream"} :
                        HoldsFile(KV, FileName(request'), KV[FileName(request')], t)
                            => /\ response'.status = 200
                               /\ response'.contentType = t
                               /\ response'.body.content = KV[FileName(request')]]_vars

\* the names of the files that GET /list answered
ListedNames == {response.body.files[i].name : i \in 1..Len(response.body.files)}

\* C17: while no request is in flight, a GET /list that no KV call fails
\* answers the files that are stored: a name is listed exactly if a GET of
\* it would find its content and its metadata, and each entry carries the
\* size and the type of the stored metadata
ListIsWhatIsStored ==
    (request.method = "GET" /\ request.path = "/list" /\ request.fault = "none"
        /\ DOMAIN tasks = {})
        => /\ response.status = 200
           /\ \A f \in {"a", "a:metadata", "a:metadata:metadata", "list"} :
                f \in ListedNames
                    <=> (f \in DOMAIN KV /\ Truthy(StoredMetadata(KV, f)))
           /\ \A i \in 1..Len(response.body.files) :
                /\ response.body.files[i].size
                        = GetProp(StoredMetadata(KV, response.body.files[i].name), "size")
                /\ response.body.files[i].type
                        = GetProp(StoredMetadata(KV, response.body.files[i].name), "contentType")

----------------------------------------------------------------------------
(* The droplet proxy (src/do-api.js).  The worker keeps no state; what the  *)
(* upstream API answers to its calls comes with the request.                *)

\* the largest number of droplets the upstream API lists
MaxDroplets == 3

\* url.pathname.replace(/^\/+|\/+$/g, ''): the path without the slashes at
\* its two ends
RECURSIVE DropletPath(_)
DropletPath(pathname) ==
    IF pathname # "" /\ CharAt(pathname, 1) = "/" THEN DropletPath(Tail(pathname))
    ELSE IF pathname # "" /\ CharAt(pathname, Len(pathname)) = "/"
        THEN DropletPath(Substring(pathname, 1, Len(pathname) - 1))
    ELSE pathname

\* POST /: the droplet is created upstream, and the answer passed on
DropletsCreate ==
    \E p \in {"/", "//"},
       up \in {[threw |-> TRUE, status |-> 0, json |-> FALSE, id |-> JSNull]}
            \cup {[threw |-> FALSE, status |-> 202, json |-> TRUE, id |-> JSNumber("7")]}
            \cup {[threw |-> FALSE, status |-> st, json |-> j, id |-> JSNull] :
                    st \in {401, 422, 502}, j \in BOOLEAN} :
        /\ DropletPath(p) = ""
        /\ request' = [method |-> "POST", path |-> p, upstream |-> up]
        /\ response' =
            IF up.threw \/ ~up.json
            THEN Response(500, "application/json", [success |-> FALSE, id |-> JSNull])
            ELSE Response(IF up.status \in 200..299 THEN 200 ELSE up.status,
                          "application/json",
                          [success |-> up.status \in 200..299, id |-> up.id])
        /\ UNCHANGED <<poller, variant, KV, tasks>>

\* GET /<id>: the droplet is looked up upstream, and the first public
\* address of its v4 networks answered
DropletsIp ==
    \E p \in {"/7", "//7", "/delete-all/x"},
       up \in {[threw |-> TRUE, status |-> 0, json |-> FALSE, v4 |-> <<>>]}
            \cup {[threw |-> FALSE, status |-> 200, json |-> TRUE, v4 |-> n] :
                    n \in {<<>>,
                           <<[type |-> "private", ip_address |-> "10.0.0.2"]>>,
                           <<[type |-> "private", ip_address |-> "10.0.0.2"],
                             [type |-> "public", ip_address |-> "203.0.113.42"],
                             [type |-> "public", ip_address |-> "203.0.113.43"]>>}}
            \cup {[threw |-> FALSE, status |-> st, json |-> j, v4 |-> <<>>] :
                    st \in {404, 502}, j \in BOOLEAN} :
        LET public == SelectSeq(up.v4, LAMBDA n : n.type = "public")
            ip == IF Len(public) > 0 THEN JSString(public[1].ip_address) ELSE JSNull
        IN  /\ DropletPath(p) \notin {"", "delete-all"}
            /\ request' = [method |-> "GET", path |-> p, upstream |-> up]
            /\ response' =
                IF up.threw \/ ~up.json
                THEN Response(500, "application/json", [success |-> FALSE, ip |-> JSNull])
                ELSE Response(IF up.status \in 200..299 THEN 200 ELSE up.status,
                              "application/json",
                              [success |-> Truthy(ip), ip |-> ip])
            /\ UNCHANGED <<poller, variant, KV, tasks>>

\* DELETE /delete-all that counts every droplet of the listing as deleted
DropletsDeleteAllTrusting ==
    \E p \in {"/delete-all", "/delete-all/"},
       list \in {[threw |-> TRUE, status |-> 0, json |-> FALSE, droplets |-> <<>>],
                 [threw |-> FALSE, status |-> 401, json |-> TRUE, droplets |-> <<>>],
                 [threw |-> FALSE, status |-> 502, json |-> FALSE, droplets |-> <<>>]}
            \cup {[threw |-> FALSE, status |-> 200, json |-> TRUE, droplets |-> d] :
                    d \in {s \in UNION {[1..n -> 1..MaxDroplets] : n \in 0..MaxDroplets} :
                            \A i, j \in DOMAIN s : s[i] = s[j] => i = j}},
       deletes \in [1..MaxDroplets -> {0, 204, 404}] :
        LET results == [i \in 1..Len(list.droplets) |->
                            [id |-> list.droplets[i],
                             ok |-> TRUE,
                             status |-> deletes[list.droplets[i]]]]
        IN  /\ DropletPath(p) = "delete-all"
            /\ \A id \in 1..MaxDroplets :
                    (\A i \in 1..Len(list.droplets) : list.droplets[i] # id) => deletes[id] = 204
            /\ request' = [method |-> "DELETE", path |-> p,
                           upstream |-> [list |-> list, deletes |-> deletes]]
            /\ response' =
                IF list.threw \/ ~list.json
                        \/ \E i \in 1..Len(results) : results[i].status = 0
                THEN Response(500, "application/json",
                              [success |-> FALSE, error |-> "message"])
                ELSE Response(200, "application/json",
                        [success |-> TRUE,
                         deleted |-> LET done == SelectSeq(results, LAMBDA r : r.ok)
                                     IN  [i \in 1..Len(done) |-> done[i].id],
                         failed |-> LET rest == SelectSeq(results, LAMBDA r : ~r.ok)
                                    IN  [i \in 1..Len(rest) |->
                                            [id |-> rest[i].id, status |-> rest[i].status]]])
            /\ UNCHANGED <<poller, variant, KV, tasks>>

\* DELETE /delete-all: the droplets are listed upstream and each one deleted;
\* list is the answer to the listing call and deletes[id] the status of the
\* delete call for id, 0 for a call that rejects
DropletsDeleteAll ==
    \E p \in {"/delete-all", "/delete-all/"},
       list \in {[threw |-> TRUE, status |-> 0, json |-> FALSE, droplets |-> <<>>],
                 [threw |-> FALSE, status |-> 401, json |-> TRUE, droplets |-> <<>>],
                 [threw |-> FALSE, status |-> 502, json |-> FALSE, droplets |-> <<>>]}
            \cup {[threw |-> FALSE, status |-> 200, json |-> TRUE, droplets |-> d] :
                    d \in {s \in UNION {[1..n -> 1..MaxDroplets] : n \in 0..MaxDroplets} :
                            \A i, j \in DOMAIN s : s[i] = s[j] => i = j}},
       deletes \in [1..MaxDroplets -> {0, 204, 404}] :
        LET results == [i \in 1..Len(list.droplets) |->
                            [id |-> list.droplets[i],
                             ok |-> deletes[list.droplets[i]] \in 200..299,
                             status |-> deletes[list.droplets[i]]]]
        IN  /\ DropletPath(p) = "delete-all"
            /\ \A id \in 1..MaxDroplets :
                    (\A i \in 1..Len(list.droplets) : list.droplets[i] # id) => deletes[id] = 204
            /\ request' = [method |-> "DELETE", path |-> p,
                           upstream |-> [list |-> list, deletes |-> deletes]]
            /\ response' =
                IF list.threw \/ ~list.json
                        \/ \E i \in 1..Len(results) : results[i].status = 0
                THEN Response(500, "application/json",
                              [success |-> FALSE, error |-> "message"])
                ELSE Response(200, "application/json",
                        [success |-> TRUE,
                         deleted |-> LET done == SelectSeq(results, LAMBDA r : r.ok)
                                     IN  [i \in 1..Len(done) |-> done[i].id],
                         failed |-> LET rest == SelectSeq(results, LAMBDA r : ~r.ok)
                                    IN  [i \in 1..Len(rest) |->
                                            [id |-> rest[i].id, status |-> rest[i].status]]])
            /\ UNCHANGED <<poller, variant, KV, tasks>>

\* the usage at GET /, the preflight, and the paths and methods the worker
\* does not know
DropletsOther ==
    \E r \in {<<"GET", "/">>, <<"OPTIONS", "/">>, <<"OPTIONS", "/7">>,
              <<"GET", "/delete-all">>, <<"POST", "/7">>, <<"DELETE", "/7">>,
              <<"DELETE", "/">>, <<"PUT", "/">>} :
        /\ request' = [method |-> r[1], path |-> r[2], upstream |-> <<>>]
        /\ response' =
            IF r[1] = "GET" /\ DropletPath(r[2]) = ""
                THEN Response(200, "text/plain;charset=UTF-8", [kind |-> "usage"])
            ELSE IF r[1] = "OPTIONS" THEN Response(204, "", [kind |-> "preflight"])
            ELSE IF r[1] = "GET" THEN Response(404, DefaultType, TextBody("Not Found"))
            ELSE Response(405, DefaultType, TextBody("Method Not Allowed"))
        /\ UNCHANGED <<poller, variant, KV, tasks>>

SpecDroplets ==
    /\ variant = "droplets"
    /\ KV = <<>>
    /\ tasks = <<>>
    /\ poller = <<>>
    /\ request = [method |-> "GET", path |-> "/", upstream |-> <<>>]
    /\ response = Response(200, "text/plain;charset=UTF-8", [kind |-> "usage"])
    /\ [][DropletsCreate \/ DropletsIp \/ DropletsDeleteAll \/ DropletsOther]_vars

\* the last request was a DELETE /delete-all whose listing call and delete
\* calls all completed, the listing with a body that is JSON
DeletedAll ==
    /\ request.method = "DELETE"
    /\ DropletPath(request.path) = "delete-all"
    /\ ~request.upstream.list.threw
    /\ request.upstream.list.json
    /\ \A i \in 1..Len(request.upstream.list.droplets) :
            request.upstream.deletes[request.upstream.list.droplets[i]] # 0

\* C18: when the listing call and every delete call of a DELETE /delete-all
\* have completed, the response names every id of the listing once: in
\* deleted if its delete call answered OK, else in failed with the status
\* of the call, and it names no other id
DeleteAllSortsEveryDroplet ==
    DeletedAll
        => /\ response.status = 200
           /\ Len(response.body.deleted) + Len(response.body.failed)
                    = Len(request.upstream.list.droplets)
           /\ \A i \in 1..Len(request.upstream.list.droplets) :
                LET id == request.upstream.list.droplets[i]
                    st == request.upstream.deletes[id]
                IN  IF st \in 200..299
                    THEN /\ \E j \in 1..Len(response.body.deleted) :
                                response.body.deleted[j] = id
                         /\ \A j \in 1..Len(response.body.failed) :
                                response.body.failed[j].id # id
                    ELSE /\ \A j \in 1..Len(response.body.deleted) :
                                response.body.deleted[j] # id
                         /\ \E j \in 1..Len(response.body.failed) :
                                response.body.failed[j] = [id |-> id, status |-> st]
           /\ \A j \in 1..Len(response.body.deleted) :
                \E i \in 1..Len(request.upstream.list.droplets) :
                    request.upstream.list.droplets[i] = response.body.deleted[j]
           /\ \A j \in 1..Len(response.body.failed) :
                \E i \in 1..Len(request.upstream.list.droplets) :
                    request.upstream.list.droplets[i] = response.body.failed[j].id

\* of the listed droplets 2, 3 and 1 the first two were deleted and the
\* delete of the last answered 404
TwoDeletedOneFailed ==
    /\ DeletedAll
    /\ request.upstream.list.droplets = <<2, 3, 1>>
    /\ response.body.deleted = <<2, 3>>
    /\ response.body.failed = <<[id |-> 1, status |-> 404]>>

----------------------------------------------------------------------------
(* The rename that fails half way *)

\* the step answers a rename of oldKey to another key newKey, oldKey holding
\* a value, while the KV call fault rejects
RenameFailsAt(oldKey, newKey, fault) ==
    /\ request'.path = <<oldKey, "r", newKey>>
    /\ Route(variant, request') = "renamePage"
    /\ request'.fault = fault
    /\ oldKey # newKey
    /\ Truthy(KVGet(KV, oldKey))

\* C19: a rename of oldKey to another key newKey whose delete of oldKey
\* throws after the write of newKey answers 500 and leaves the value of
\* oldKey under both keys; one whose write of newKey throws answers 500 and
\* leaves the store as it was
RenamePartialFailure ==
    [][\A oldKey \in Keys, newKey \in Keys :
        /\ RenameFailsAt(oldKey, newKey, "delete")
            => /\ response'.status = 500
               /\ KV' = KVPut(KV, newKey, KV[oldKey])
               /\ oldKey \in DOMAIN KV' /\ newKey \in DOMAIN KV'
               /\ KV'[oldKey] = KV[oldKey] /\ KV'[newKey] = KV[oldKey]
        /\ RenameFailsAt(oldKey, newKey, "put")
            => /\ response'.status = 500
               /\ KV' = KV]_vars

\* a rename of frag to l has answered 500 at its delete, and both keys hold
\* the same value
RenameLeftBothKeys ==
    /\ request.path = <<"frag", "r", "l">>
    /\ request.fault = "delete"
    /\ response.status = 500
    /\ "frag" \in DOMAIN KV /\ "l" \in DOMAIN KV
    /\ KV["frag"] = KV["l"]

----------------------------------------------------------------------------
(* The page store under requests that interleave: a rename is three KV      *)
(* calls with an await after each, and a read is one                        *)

\* the largest number of renames in flight at once
MaxRenames == 1

\* a rename that deletes oldKey before it writes newKey
RaceRenameDeleteFirst ==
    \/ \E oldKey \in {"frag", "notes"}, newKey \in {"frag", "notes"},
          fault \in {"none", "get", "put", "delete"} :
        LET req == Req("POST", <<oldKey, "r", newKey>>, "", BlankForm, fault) @@ [alone |-> TRUE]
            data == KVGet(KV, oldKey)
        IN  /\ Route(variant, req) = "renamePage"
            /\ Cardinality(DOMAIN tasks) < MaxRenames
            /\ KV' = KV
            /\ IF fault = "get"
               THEN Answer(req, DOMAIN tasks = {},
                           Response(500, DefaultType, TextBody("Rename failed")), tasks)
               ELSE IF ~Truthy(data)
               THEN Answer(req, DOMAIN tasks = {},
                           Response(404, PlainType, TextBody("Original page not found")), tasks)
               ELSE Await(req, [pc |-> "put", data |-> data.v, saved |-> JSNull])
    \/ \E id \in DOMAIN tasks :
        LET req == tasks[id].req
        IN  /\ tasks[id].locals.pc = "put"
            /\ IF req.fault = "delete"
               THEN /\ KV' = KV
                    /\ Answer(req, tasks[id].alone,
                              Response(500, DefaultType, TextBody("Rename failed")),
                              [i \in DOMAIN tasks \ {id} |-> tasks[i]])
               ELSE /\ KV' = KVDelete(KV, req.path[1])
                    /\ tasks' = [tasks EXCEPT ![id].locals.pc = "delete"]
                    /\ UNCHANGED <<poller, variant, request, response>>
    \/ \E id \in DOMAIN tasks :
        LET req == tasks[id].req
        IN  /\ tasks[id].locals.pc = "delete"
            /\ KV' = IF req.fault = "put" THEN KV
                     ELSE KVPut(KV, req.path[3], tasks[id].locals.data)
            /\ Answer(req, tasks[id].alone,
                      IF req.fault = "put"
                      THEN Response(500, DefaultType, TextBody("Rename failed"))
                      ELSE Redirect("/" \o req.path[3]),
                      [i \in DOMAIN tasks \ {id} |-> tasks[i]])

\* renamePage(oldKey, newKey) in its steps: the get of oldKey when the
\* request arrives, then the put of newKey, then the delete of oldKey and
\* the redirect; locals.pc names the call that is next;
\* locals.saved remembers the content of the last save to oldKey that
\* answered 302 while the rename was in flight, null when there was none
RaceRename ==
    \/ \E oldKey \in {"frag", "notes"}, newKey \in {"frag", "notes"},
          fault \in {"none", "get", "put", "delete"} :
        LET req == Req("POST", <<oldKey, "r", newKey>>, "", BlankForm, fault) @@ [alone |-> TRUE]
            data == KVGet(KV, oldKey)
        IN  /\ Route(variant, req) = "renamePage"
            /\ Cardinality(DOMAIN tasks) < MaxRenames
            /\ KV' = KV
            /\ IF fault = "get"
               THEN Answer(req, DOMAIN tasks = {},
                           Response(500, DefaultType, TextBody("Rename failed")), tasks)
               ELSE IF ~Truthy(data)
               THEN Answer(req, DOMAIN tasks = {},
                           Response(404, PlainType, TextBody("Original page not found")), tasks)
               ELSE Await(req, [pc |-> "put", data |-> data.v, saved |-> JSNull])
    \/ \E id \in DOMAIN tasks :
        LET req == tasks[id].req
        IN  /\ tasks[id].locals.pc = "put"
            /\ IF req.fault = "put"
               THEN /\ KV' = KV
                    /\ Answer(req, tasks[id].alone,
                              Response(500, DefaultType, TextBody("Rename failed")),
                              [i \in DOMAIN tasks \ {id} |-> tasks[i]])
               ELSE /\ KV' = KVPut(KV, req.path[3], tasks[id].locals.data)
                    /\ tasks' = [tasks EXCEPT ![id].locals.pc = "delete"]
                    /\ UNCHANGED <<poller, variant, request, response>>
    \/ \E id \in DOMAIN tasks :
        LET req == tasks[id].req
        IN  /\ tasks[id].locals.pc = "delete"
            /\ KV' = IF req.fault = "delete" THEN KV ELSE KVDelete(KV, req.path[1])
            /\ Answer(req, tasks[id].alone,
                      IF req.fault = "delete"
                      THEN Response(500, DefaultType, TextBody("Rename failed"))
                      ELSE Redirect("/" \o req.path[3]),
                      [i \in DOMAIN tasks \ {id} |-> tasks[i]])

\* GET /<key>: the page is read and shown, in one KV call
RaceRead ==
    \E key \in {"frag", "notes"} :
        LET req == Req("GET", <<key>>, "", BlankForm, "none") @@ [alone |-> DOMAIN tasks = {}]
        IN  /\ Route(variant, req) = "servePage"
            /\ request' = req
            /\ response' = handleRequest(variant, KV, req).response
            /\ UNCHANGED <<poller, variant, KV, tasks>>

SpecRace ==
    /\ variant \in Variants
    /\ KV \in {[k \in S |-> IF k = "frag" THEN "x" ELSE "hello"] : S \in SUBSET {"frag", "notes"}}
    /\ tasks = <<>>
    /\ poller = <<>>
    /\ request = Req("GET", <<>>, "", BlankForm, "none") @@ [alone |-> TRUE]
    /\ response = handleRequest(variant, KV, request).response
    /\ [][RaceRename \/ RaceRead]_vars

\* the request in flight t is a rename to another key beside which no other
\* rename has been in flight
RenamesAlone(t) ==
    /\ t.alone
    /\ t.req.path[1] # t.req.path[3]

\* C20: while a rename of oldKey to another key newKey is in flight with no
\* other writer beside it, the value v it read is under oldKey, and so under
\* one of the two keys; a read of oldKey answered meanwhile shows v; and
\* when the rename is answered v is under oldKey or under newKey
RenameWindow ==
    /\ [](\A id \in DOMAIN tasks :
            RenamesAlone(tasks[id])
                => KVGet(KV, tasks[id].req.path[1]) = JSString(tasks[id].locals.data))
    /\ [][\A id \in DOMAIN tasks :
            RenamesAlone(tasks[id]) =>
                /\ (request'.method = "GET" /\ request'.path = <<tasks[id].req.path[1]>>)
                    => /\ response'.status = 200
                       /\ response' = handleRequest(variant,
                            [k \in {tasks[id].req.path[1]} |-> tasks[id].locals.data],
                            request').response
                /\ \/ KVGet(KV', tasks[id].req.path[1]) = JSString(tasks[id].locals.data)
                   \/ KVGet(KV', tasks[id].req.path[3]) = JSString(tasks[id].locals.data)]_vars

\* a rename of frag to notes is between its put and its delete, alone, and
\* both keys hold the value it read
BothKeysHoldThePage ==
    \E id \in DOMAIN tasks :
        /\ RenamesAlone(tasks[id])
        /\ tasks[id].req.path = <<"frag", "r", "notes">>
        /\ tasks[id].locals.pc = "delete"
        /\ KVGet(KV, "frag") = JSString(tasks[id].locals.data)
        /\ KVGet(KV, "notes") = JSString(tasks[id].locals.data)

----------------------------------------------------------------------------
(* The rename beside a save *)

\* POST /<key>/e: the form is read and the content put, in one KV call; a
\* save that answers 302 is remembered by the renames of key in flight
RaceSave ==
    \E key \in {"frag", "notes"}, fault \in {"none", "put"} :
        LET req == Req("POST", <<key, "e">>, "", [BlankForm EXCEPT !.content = "new"], fault)
                        @@ [alone |-> DOMAIN tasks = {}]
            out == handleRequest(variant, KV, req)
        IN  /\ Route(variant, req) = "savePage"
            /\ request' = req
            /\ response' = out.response
            /\ KV' = out.kv
            /\ tasks' = [i \in DOMAIN tasks |->
                            IF out.response.status = 302 /\ tasks[i].req.path[1] = key
                            THEN [tasks[i] EXCEPT !.alone = FALSE,
                                                  !.locals.saved = JSString("new")]
                            ELSE [tasks[i] EXCEPT !.alone = FALSE]]
            /\ UNCHANGED <<poller, variant>>

SpecRaceSave ==
    /\ variant \in Variants
    /\ KV \in {[k \in S |-> IF k = "frag" THEN "x" ELSE "hello"] : S \in SUBSET {"frag", "notes"}}
    /\ tasks = <<>>
    /\ poller = <<>>
    /\ request = Req("GET", <<>>, "", BlankForm, "none") @@ [alone |-> TRUE]
    /\ response = handleRequest(variant, KV, request).response
    /\ [][RaceRename \/ RaceRead \/ RaceSave]_vars

\* C21: when a rename of k1 to k2 answers 302 and a save to k1 has answered
\* 302 while the rename was in flight, the content of that save is under k1
\* or under k2 after the rename's answer; stated for k1 # k2, where the
\* rename alone loses nothing
RenameKeepsAcknowledgedSave ==
    [][\A id \in DOMAIN tasks :
        (/\ id \notin DOMAIN tasks'
         /\ tasks[id].req.path[1] # tasks[id].req.path[3]
         /\ request'.path = tasks[id].req.path
         /\ response'.status = 302
         /\ tasks[id].locals.saved # JSNull)
            => \/ KVGet(KV', tasks[id].req.path[1]) = tasks[id].locals.saved
               \/ KVGet(KV', tasks[id].req.path[3]) = tasks[id].locals.saved]_vars

----------------------------------------------------------------------------
(* What a written page is to the routes that read it *)

\* C22: a rename that answers 302 for a source that holds v leaves v under
\* newKey, for every pair of keys, the pair of a key with itself included
RenameLeavesValueUnderNewKey ==
    [][(/\ Route(variant, request') = "renamePage"
        /\ request'.path[1] \in DOMAIN KV
        /\ response'.status = 302)
            => /\ request'.path[3] \in DOMAIN KV'
               /\ KV'[request'.path[3]] = KV[request'.path[1]]]_vars

\* C23: a key that a save or a create has written, and that has not been
\* deleted or renamed away since, is present to the read and to the rename:
\* neither answers 404, the empty content included
WrittenPagesArePresent ==
    [][(/\ Route(variant, request') \in {"servePage", "renamePage"}
        /\ request'.fault = "none"
        /\ request'.path[1] \in DOMAIN KV)
            => response'.status # 404]_vars

\* C24: the read of a stored key answers a page or a file, never 500, when
\* the KV call succeeds
ReadIsTotal ==
    [][(/\ Route(variant, request') = "servePage"
        /\ request'.fault = "none"
        /\ request'.path[1] \in DOMAIN KV
        /\ KV[request'.path[1]] # "")
            => response'.status = 200]_vars

\* C25: after a save stored the text hello under k, GET /k shows that page,
\* for every key the save route takes
WritableKeysAreViewable ==
    [][(/\ request'.method = "GET"
        /\ Len(request'.path) = 1
        /\ request'.fault = "none"
        /\ request'.path[1] \in DOMAIN KV
        /\ KV[request'.path[1]] = "hello")
            => response' = PageGet(KV, request'.path[1])]_vars

----------------------------------------------------------------------------
(* The file API: what a delete and an upload leave alone *)

\* GET /g answers 200 from the store kv: the content key of g is stored and
\* its metadata is not null
Downloadable(kv, g) == g \in DOMAIN kv /\ StoredMetadata(kv, g) # JSNull

\* GET /g answers the same from kv2 as from kv1, where it answers 200
SameDownload(kv1, kv2, g) ==
    Downloadable(kv1, g)
        => /\ Downloadable(kv2, g)
           /\ kv2[g] = kv1[g]
           /\ GetProp(StoredMetadata(kv2, g), "contentType")
                = GetProp(StoredMetadata(kv1, g), "contentType")

\* C26: when a DELETE /f that ran beside no other request is answered 200,
\* GET /f answers 404 from then on, and every other file name g that was
\* downloadable before the last KV call of the delete is downloadable after
\* it with the same bytes and content type; the last KV call of a PUT /f
\* changes the download of no other file name either
DeleteAndUploadAreIsolated ==
    [][(FilesAnswers /\ request'.alone /\ response'.status = 200
            /\ request'.method \in {"DELETE", "PUT"} /\ request'.path # "/list")
        => /\ request'.method = "DELETE" => ~Downloadable(KV', FileName(request'))
           /\ \A g \in {"a", "a:metadata"} \ {FileName(request')} :
                SameDownload(KV, KV', g)]_vars


\* every GET answered 200 has a body and a content type that one of the
\* uploads wrote together
DownloadIsOfOneUpload ==
    [][(FilesAnswers /\ request'.method = "GET" /\ request'.path = "/a"
            /\ response'.status = 200)
        => <<response'.body.content, response'.contentType>>
                \in {<<"x", "text/plain">>, <<"yy", "application/octet-stream">>}]_vars

\* C27: under PUT, DELETE and GET requests on one file name that interleave,
\* every GET answered 200 has the body and the content type of one and the
\* same PUT, and when no request is in flight the content key of the file
\* is stored if and only if its metadata key is
FilesConsistentUnderInterleaving ==
    /\ DownloadIsOfOneUpload
    /\ [](DOMAIN tasks = {} => ("a" \in DOMAIN KV <=> "a:metadata" \in DOMAIN KV))

----------------------------------------------------------------------------
(* The droplet proxy: an upstream call that fails *)

\* an upstream call of the last request has thrown or answered a status
\* that is not OK
UpstreamFailed ==
    IF request.method = "DELETE" /\ DropletPath(request.path) = "delete-all"
    THEN \/ request.upstream.list.threw
         \/ request.upstream.list.status \notin 200..299
         \/ \E i \in 1..Len(request.upstream.list.droplets) :
                request.upstream.deletes[request.upstream.list.droplets[i]] \notin 200..299
    ELSE /\ request.upstream # <<>>
         /\ request.upstream.threw \/ request.upstream.status \notin 200..299

\* C30: when an upstream call of a POST /, a GET /<id> or a DELETE
\* /delete-all throws or answers a status that is not OK, the response says
\* success false and its status is not 200
UpstreamFailureIsReported ==
    UpstreamFailed => (~response.body.success /\ response.status # 200)

----------------------------------------------------------------------------
(* The sync script (src/unnamed/part_000, lines 1-96).  poller.pidFile is   *)
(* the content of /var/run/api_sync.pid, 0 when the file does not exist;    *)
(* poller.procs are the processes alive, by process id: the scripts invoked *)
(* and the subshells that run_in_background runs in; poller.next is the     *)
(* next process id, and poller.local the names of the files in the local    *)
(* directory.  A process id is not used twice.                              *)

\* the largest process id
MaxPid == 4

\* the largest number of names in the answer of /list
MaxListed == 3

\* a process: shell is what $$ expands to in it, remote_files the lines of
\* the listing, position the line the while loop reads next, log the
\* message logged last
Process(kind, shell, pc) ==
    [kind |-> kind, shell |-> shell, pc |-> pc, remote_files |-> <<>>, position |-> 1,
     success_count |-> 0, total_count |-> 0, log |-> ""]

\* an invocation of the script: it starts, tests the PID file and the
\* process it names, launches run_in_background in a background subshell,
\* and ends after its four echo lines
Invoke ==
    \/ /\ poller.next < MaxPid
       /\ poller' = [poller EXCEPT
                        !.procs = [p \in DOMAIN poller.procs \cup {poller.next} |->
                                    IF p = poller.next THEN Process("script", p, "guard")
                                    ELSE poller.procs[p]],
                        !.next = poller.next + 1]
       /\ UNCHANGED <<variant, KV, request, response, tasks>>
    \/ \E p \in DOMAIN poller.procs :
        /\ poller.procs[p].pc = "guard"
        /\ poller' =
            IF poller.pidFile # 0 /\ poller.pidFile \in DOMAIN poller.procs
            THEN [poller EXCEPT !.procs = [r \in DOMAIN poller.procs \ {p} |-> poller.procs[r]]]
            ELSE [poller EXCEPT !.procs[p].pc = "launch"]
        /\ UNCHANGED <<variant, KV, request, response, tasks>>
    \/ \E p \in DOMAIN poller.procs :
        /\ poller.procs[p].pc = "launch"
        /\ poller' = [poller EXCEPT
                        !.procs = [r \in DOMAIN poller.procs \cup {poller.next} |->
                                    IF r = poller.next THEN Process("poller", p, "run")
                                    ELSE IF r = p THEN [poller.procs[p] EXCEPT !.pc = "exit"]
                                    ELSE poller.procs[r]],
                        !.next = poller.next + 1]
        /\ UNCHANGED <<variant, KV, request, response, tasks>>
    \/ \E p \in DOMAIN poller.procs :
        /\ poller.procs[p].pc = "exit"
        /\ poller' = [poller EXCEPT !.procs = [r \in DOMAIN poller.procs \ {p} |-> poller.procs[r]]]
        /\ UNCHANGED <<variant, KV, request, response, tasks>>

\* run_in_background up to its loop, in the subshell q: $$ is written to
\* the PID file, the trap is set and the start logged
RunInBackground(q) ==
    /\ q \in DOMAIN poller.procs
    /\ poller.procs[q].pc = "run"
    /\ poller' = [poller EXCEPT !.pidFile = poller.procs[q].shell,
                                !.procs[q].pc = "sync",
                                !.procs[q].log = "Background sync started"]
    /\ UNCHANGED <<variant, KV, request, response, tasks>>

\* a sync pass that a failed download ends
SyncFilesStopping(q) ==
    /\ q \in DOMAIN poller.procs
    /\ \/ \E names \in UNION {[1..n -> {"", "a"}] : n \in 0..MaxListed} :
            LET RECURSIVE Stripped(_)
                Stripped(lines) ==
                    IF Len(lines) > 0 /\ lines[Len(lines)] = ""
                    THEN Stripped(SubSeq(lines, 1, Len(lines) - 1))
                    ELSE lines
                remote_files == Stripped(names)
            IN  /\ poller.procs[q].pc = "sync"
                /\ poller' = [poller EXCEPT !.procs[q] =
                        IF Len(remote_files) = 0
                        THEN [Process("poller", poller.procs[q].shell, "sleep")
                                EXCEPT !.log = "No files found or API error"]
                        ELSE [Process("poller", poller.procs[q].shell, "read")
                                EXCEPT !.remote_files = remote_files,
                                       !.log = "Starting sync"]]
       \/ \E downloaded \in BOOLEAN :
            LET proc == poller.procs[q]
                filename == proc.remote_files[proc.position]
            IN  /\ proc.pc = "read"
                /\ proc.position <= Len(proc.remote_files)
                /\ filename = "" => downloaded
                /\ poller' = [poller EXCEPT
                    !.local = IF filename # "" /\ downloaded THEN poller.local \cup {filename}
                              ELSE poller.local,
                    !.procs[q] =
                        IF filename = "" THEN [proc EXCEPT !.position = proc.position + 1]
                        ELSE [proc EXCEPT
                                !.pc = IF downloaded THEN "read" ELSE "sleep",
                                !.position = proc.position + 1,
                                !.total_count = proc.total_count + 1,
                                !.success_count = IF downloaded THEN proc.success_count + 1
                                                  ELSE proc.success_count,
                                !.log = IF downloaded THEN "Downloaded" ELSE "Failed to download"]]
       \/ /\ poller.procs[q].pc = "read"
          /\ poller.procs[q].position > Len(poller.procs[q].remote_files)
          /\ poller' = [poller EXCEPT !.procs[q].pc = "sleep",
                                      !.procs[q].log = "Sync completed"]
       \/ /\ poller.procs[q].pc = "sleep"
          /\ poller' = [poller EXCEPT !.procs[q].pc = "sync"]
    /\ UNCHANGED <<variant, KV, request, response, tasks>>

\* sync_files in the loop of the subshell q: the listing, of which the
\* command substitution drops the empty lines at the end; the abort on an
\* empty listing; one turn of the while loop, where curl leaves the file in
\* the local directory when it succeeds; the end of the pass; the sleep
SyncFiles(q) ==
    /\ q \in DOMAIN poller.procs
    /\ \/ \E names \in UNION {[1..n -> {"", "a"}] : n \in 0..MaxListed} :
            LET RECURSIVE Stripped(_)
                Stripped(lines) ==
                    IF Len(lines) > 0 /\ lines[Len(lines)] = ""
                    THEN Stripped(SubSeq(lines, 1, Len(lines) - 1))
                    ELSE lines
                remote_files == Stripped(names)
            IN  /\ poller.procs[q].pc = "sync"
                /\ poller' = [poller EXCEPT !.procs[q] =
                        IF Len(remote_files) = 0
                        THEN [Process("poller", poller.procs[q].shell, "sleep")
                                EXCEPT !.log = "No files found or API error"]
                        ELSE [Process("poller", poller.procs[q].shell, "read")
                                EXCEPT !.remote_files = remote_files,
                                       !.log = "Starting sync"]]
       \/ \E downloaded \in BOOLEAN :
            LET proc == poller.procs[q]
                filename == proc.remote_files[proc.position]
            IN  /\ proc.pc = "read"
                /\ proc.position <= Len(proc.remote_files)
                /\ filename = "" => downloaded
                /\ poller' = [poller EXCEPT
                    !.local = IF filename # "" /\ downloaded THEN poller.local \cup {filename}
                              ELSE poller.local,
                    !.procs[q] =
                        IF filename = "" THEN [proc EXCEPT !.position = proc.position + 1]
                        ELSE [proc EXCEPT
                                !.position = proc.position + 1,
                                !.total_count = proc.total_count + 1,
                                !.success_count = IF downloaded THEN proc.success_count + 1
                                                  ELSE proc.success_count,
                                !.log = IF downloaded THEN "Downloaded" ELSE "Failed to download"]]
       \/ /\ poller.procs[q].pc = "read"
          /\ poller.procs[q].position > Len(poller.procs[q].remote_files)
          /\ poller' = [poller EXCEPT !.procs[q].pc = "sleep",
                                      !.procs[q].log = "Sync completed"]
       \/ /\ poller.procs[q].pc = "sleep"
          /\ poller' = [poller EXCEPT !.procs[q].pc = "sync"]
    /\ UNCHANGED <<variant, KV, request, response, tasks>>

\* the subshell q is sent TERM or INT: once the trap is set it removes the
\* PID file and exits; before that the subshell just ends
Kill(q) ==
    /\ q \in DOMAIN poller.procs
    /\ poller.procs[q].kind = "poller"
    /\ poller' = [poller EXCEPT
                    !.pidFile = IF poller.procs[q].pc = "run" THEN poller.pidFile ELSE 0,
                    !.procs = [r \in DOMAIN poller.procs \ {q} |-> poller.procs[r]]]
    /\ UNCHANGED <<variant, KV, request, response, tasks>>

\* the script invoked any number of times, in any interleaving
SpecPoller ==
    /\ variant = "poller"
    /\ KV = <<>>
    /\ tasks = <<>>
    /\ request = <<>>
    /\ response = <<>>
    /\ poller = [pidFile |-> 0, procs |-> <<>>, next |-> 1, local |-> {}]
    /\ [][Invoke \/ (\E q \in 1..MaxPid : RunInBackground(q))
                 \/ (\E q \in 1..MaxPid : SyncFiles(q))
                 \/ (\E q \in 1..MaxPid : Kill(q))]_vars

\* one background subshell from its launch on, after the script that
\* launched it has ended; every command of the subshell ends
SpecSync ==
    /\ variant = "poller"
    /\ KV = <<>>
    /\ tasks = <<>>
    /\ request = <<>>
    /\ response = <<>>
    /\ poller = [pidFile |-> 0, procs |-> [q \in {2} |-> Process("poller", 1, "run")],
                 next |-> 3, local |-> {}]
    /\ [][(\E q \in 1..MaxPid : RunInBackground(q))
            \/ (\E q \in 1..MaxPid : SyncFiles(q))
            \/ (\E q \in 1..MaxPid : Kill(q))]_vars
    /\ \A q \in 1..MaxPid : WF_vars(RunInBackground(q)) /\ WF_vars(SyncFiles(q))

----------------------------------------------------------------------------
(* The sync script: the passes and the single instance *)

\* the background subshells alive
Pollers == {q \in DOMAIN poller.procs : poller.procs[q].kind = "poller"}

\* the lines of the listing that are not empty
NonEmptyNames(remote_files) == {i \in 1..Len(remote_files) : remote_files[i] # ""}

\* C28: a download that fails is logged and the pass reads the next name;
\* the pass ends with success_count <= total_count and total_count the
\* number of listed names that are not empty; an empty or failed listing
\* ends the pass with no download; and until the subshell is killed it
\* starts a pass and sleeps again and again
PollerProgress ==
    /\ [][\A q \in Pollers \cap DOMAIN poller'.procs :
            LET proc == poller.procs[q]
                next == poller'.procs[q]
            IN  /\ (proc.pc = "read" /\ next.position # proc.position
                        /\ proc.remote_files[proc.position] # ""
                        /\ next.success_count = proc.success_count)
                    => /\ next.log = "Failed to download"
                       /\ next.pc = "read"
                       /\ next.position = proc.position + 1
                       /\ next.total_count = proc.total_count + 1
                /\ (proc.pc = "read" /\ next.pc = "sleep")
                    => /\ next.log = "Sync completed"
                       /\ proc.position = Len(proc.remote_files) + 1
                       /\ next.success_count <= next.total_count
                       /\ next.total_count = Cardinality(NonEmptyNames(proc.remote_files))
                /\ (proc.pc = "sync" /\ next.pc = "sleep")
                    => /\ next.log = "No files found or API error"
                       /\ next.total_count = 0
                       /\ poller'.local = poller.local
                /\ (proc.pc = "sync" /\ next.pc = "read")
                    => NonEmptyNames(next.remote_files) # {}
                /\ next.pc # proc.pc => next.pc \in {"sync", "read", "sleep"}]_vars
    /\ \A q \in 1..MaxPid :
        /\ []<>(q \notin Pollers \/ poller.procs[q].pc = "sync")
        /\ []<>(q \notin Pollers \/ poller.procs[q].pc = "sleep")

\* a pass over three names has ended after one download failed and two
\* succeeded
PassEndedAfterFailedDownload ==
    \E q \in Pollers :
        /\ poller.procs[q].pc = "sleep"
        /\ poller.procs[q].log = "Sync completed"
        /\ poller.procs[q].remote_files = <<"a", "a", "a">>
        /\ poller.procs[q].total_count = 3
        /\ poller.procs[q].success_count = 2

\* C29: while a background subshell is alive, an invocation that tests the
\* PID file ends there and launches nothing; at most one background
\* subshell is alive; and the PID file names the subshell that runs the loop
SingleInstance ==
    /\ [][\A p \in DOMAIN poller.procs :
            (/\ poller.procs[p].pc = "guard"
             /\ Pollers # {}
             /\ (p \notin DOMAIN poller'.procs \/ poller'.procs[p].pc # "guard"))
                => p \notin DOMAIN poller'.procs]_vars
    /\ [](Cardinality(Pollers) <= 1)
    /\ [](\A q \in Pollers : poller.procs[q].pc # "run" => poller.pidFile = q)

====
